---- MODULE Spec2Model ----
(***************************************************************************)
(* Model of the real-time job analysis workflow of the Skill Gap Analyzer  *)
(* content script: AnalysisWorkflowManager (analysis-workflow.ts), the     *)
(* content validation of JobContentExtractor (job-extractor.ts) and the    *)
(* analysis cache with its 30 minute expiry and capacity eviction.         *)
(*                                                                         *)
(* Text is modelled as sequences of UTF-16 code units, so that hashing,    *)
(* lower-casing, substring search and key building are computed the way    *)
(* the code computes them.                                                 *)
(***************************************************************************)
EXTENDS Integers, Sequences, FiniteSets, TLC

VARIABLES
    now,              \* wall clock in ms (Date.now() / new Date())
    page,             \* the job page currently shown in the tab (a PageIds member)
    skillExtractor,   \* AnalysisWorkflowManager.skillExtractor: NULL or "engine"
    skillMatcher,     \* AnalysisWorkflowManager.skillMatcher: NULL or "engine"
    initPc,           \* position of an initialize() call: "idle" or "awaitEngine"
    analysisCache,    \* Map<string, CachedAnalysis> as a sequence in insertion order
    currentAnalysis,  \* NoRun or the run whose promise the field holds
    runs,             \* the performAnalysis invocations, in start order
    requests,         \* the analyzeCurrentJob calls, in call order
    ticks,            \* number of clock advances so far
    navigations,      \* number of page changes so far
    cleanups,         \* the cleanupCache calls so far: when, and the entries deleted
    clearedSince,     \* clearCache was called since the last analyzeCurrentJob call
    calc,             \* the last call of a matching or recommendation function: its
                      \* name, arguments and result (NoCalc while none was made)
    storedHistory,    \* chrome.storage.local under 'analysis_history': what is
                      \* stored there, or NotStored
    saves,            \* the HistoryManager.saveAnalysis calls, in call order
    storageManager    \* StorageManager.isInitialized and StorageManager.encryptionKey

vars == <<now, page, skillExtractor, skillMatcher, initPc, analysisCache,
          currentAnalysis, runs, requests, ticks, navigations, cleanups,
          clearedSince, calc, storedHistory, saves, storageManager>>

historyVars == <<storedHistory, saves, storageManager>>

NULL == "null"                 \* null where the other values are strings
NoObject == [null |-> TRUE]    \* null where the other values are records
NotStored == [found |-> FALSE] \* chrome.storage.local has no value under the key
\* StorageManager as its constructor leaves it (storage.ts, the field initialisers)
NewStorageManager == [isInitialized |-> FALSE, encryptionKey |-> NULL]
NoRun == 0                     \* null where the other values are run numbers
NoTime == -1                   \* no time recorded
NoCalc == [op |-> "none"]      \* no function call recorded

----------------------------------------------------------------------------
(* Bounds of the model *)

MaxRuns == 3
MaxRequests == 3
MaxTicks == 2
MaxNavigations == 1
MaxEvents == 4
MaxOutstanding == 2

----------------------------------------------------------------------------
(* Program constants *)

CACHE_DURATION_MS == 1800000
MAX_CACHE_SIZE == 50

----------------------------------------------------------------------------
(* Text helpers: strings are sequences of char codes *)

\* String.prototype.toLowerCase on the ASCII range
toLowerCase(s) == [i \in 1..Len(s) |-> IF s[i] >= 65 /\ s[i] <= 90 THEN s[i] + 32 ELSE s[i]]

\* String.prototype.includes
includes(s, k) ==
    \E i \in 0..(Len(s) - Len(k)) : \A j \in 1..Len(k) : s[i + j] = k[j]

Bar == <<124>>      \* "|"
Colon == <<58>>     \* ":"

----------------------------------------------------------------------------
(* generateContentHash: a 32-bit rolling hash.  A 32-bit integer is held   *)
(* as <<hi, lo>>, two 16-bit halves, so that no intermediate value leaves  *)
(* the range of the checker's integers.                                    *)

Zero32 == <<0, 0>>

\* hash = ((hash << 5) - hash) + char; hash = hash & hash   (mod 2^32)
hashStep(h, c) ==
    LET lo1 == h[2] * 31 + c
        hi1 == h[1] * 31 + (lo1 \div 65536)
    IN  <<hi1 % 65536, lo1 % 65536>>

\* for (let i = 0; i < hashInput.length; i++): the loop from position i on,
\* with the hash so far; each iteration's value is computed before the next
RECURSIVE hashLoop(_, _, _)
hashLoop(s, i, h) ==
    IF h \notin Seq(Int) \/ i > Len(s) THEN h
    ELSE hashLoop(s, i + 1, hashStep(h, s[i]))

\* Math.abs of the signed reading of a 32-bit word (2^31 for -2^31)
MathAbs(h) ==
    IF h[1] < 32768 THEN h
    ELSE IF h[2] = 0 THEN <<65536 - h[1], 0>>
    ELSE <<65535 - h[1], 65536 - h[2]>>

DigitChar(d) == IF d < 10 THEN 48 + d ELSE 87 + d

\* Number.prototype.toString(36) of a non-negative integer
RECURSIVE Digits36(_)
Digits36(v) ==
    IF v = Zero32 THEN <<>>
    ELSE LET r1  == v[1] % 36
             mid == r1 * 65536 + v[2]
             q   == <<v[1] \div 36, mid \div 36>>
         IN  Append(Digits36(q), DigitChar(mid % 36))

toString36(v) == IF v = Zero32 THEN <<48>> ELSE Digits36(v)

hashInput(content) ==
    content.title \o Bar \o content.company \o Bar \o content.description
        \o Bar \o content.requirements

generateContentHash(content) ==
    toString36(MathAbs(hashLoop(hashInput(content), 1, Zero32)))

generateCacheKey(url, contentHash) == url \o Colon \o contentHash

----------------------------------------------------------------------------
(* The pages the tab can show.  A page is described by what the detector   *)
(* and the extractor read from it: the job site its URL matches (NULL for  *)
(* none), whether the title and description elements exist, and the text   *)
(* the extractor returns for the description and the requirements.         *)

Url1 == <<108, 105, 110, 107, 101, 100, 105, 110, 46, 99, 111, 109, 47, 106, 111, 98, 115, 47, 118, 105, 101, 119, 47, 49>>
Url2 == <<108, 105, 110, 107, 101, 100, 105, 110, 46, 99, 111, 109, 47, 106, 111, 98, 115, 47, 118, 105, 101, 119, 47, 50>>
UrlOther == <<101, 120, 97, 109, 112, 108, 101, 46, 99, 111, 109>>
TitleDev == <<68, 101, 118>>
CompanyAcme == <<65, 99, 109, 101>>

\* " Senior engineer role: 5 years experience and strong skills required."
DescTail == <<32, 83, 101, 110, 105, 111, 114, 32, 101, 110, 103, 105, 110, 101, 101, 114, 32, 114, 111, 108, 101, 58, 32, 53, 32, 121, 101, 97, 114, 115, 32, 101, 120, 112, 101, 114, 105, 101, 110, 99, 101, 32, 97, 110, 100, 32, 115, 116, 114, 111, 110, 103, 32, 115, 107, 105, 108, 108, 115, 32, 114, 101, 113, 117, 105, 114, 101, 100, 46>>
DescAa == <<65, 97>> \o DescTail
DescBB == <<66, 66>> \o DescTail
DescAb == <<65, 98>> \o DescTail
\* "Great job"
DescShort == <<71, 114, 101, 97, 116, 32, 106, 111, 98>>

JobPage(url, description) ==
    [site |-> "linkedin", url |-> url, hasTitle |-> TRUE, hasDescription |-> TRUE,
     title |-> TitleDev, company |-> CompanyAcme,
     description |-> description, requirements |-> <<>>]

PageIds == {"none", "A", "B", "C", "D", "S"}

PageData(p) ==
    CASE p = "A" -> JobPage(Url1, DescAa)
      [] p = "B" -> JobPage(Url1, DescBB)
      [] p = "C" -> JobPage(Url1, DescAb)
      [] p = "D" -> JobPage(Url2, DescAa)
      [] p = "S" -> JobPage(Url1, DescShort)
      [] OTHER   -> [site |-> NULL, url |-> UrlOther, hasTitle |-> FALSE,
                     hasDescription |-> FALSE, title |-> <<>>, company |-> <<>>,
                     description |-> <<>>, requirements |-> <<>>]

\* JobPageDetector.detectCurrentPage: NoObject or the JobPageInfo of the page
detectCurrentPage(p) ==
    LET d == PageData(p)
    IN  IF d.site = NULL \/ ~d.hasTitle \/ ~d.hasDescription THEN NoObject
        ELSE [site |-> d.site, url |-> d.url, title |-> d.title, company |-> d.company]

\* JobContentExtractor.extractJobContent: NoObject or the ExtractedJobContent
extractJobContent(p, jobInfo) ==
    LET d == PageData(p)
    IN  IF jobInfo = NoObject \/ d.description = <<>> THEN NoObject
        ELSE [site |-> jobInfo.site, url |-> jobInfo.url, title |-> jobInfo.title,
              company |-> jobInfo.company, description |-> d.description,
              requirements |-> d.requirements]

jobKeywords ==
    << <<101, 120, 112, 101, 114, 105, 101, 110, 99, 101>>,                             \* experience
       <<115, 107, 105, 108, 108, 115>>,                                                \* skills
       <<114, 101, 113, 117, 105, 114, 101, 109, 101, 110, 116, 115>>,                  \* requirements
       <<114, 101, 115, 112, 111, 110, 115, 105, 98, 105, 108, 105, 116, 105, 101, 115>>, \* responsibilities
       <<113, 117, 97, 108, 105, 102, 105, 99, 97, 116, 105, 111, 110, 115>>,           \* qualifications
       <<101, 100, 117, 99, 97, 116, 105, 111, 110>>,                                   \* education
       <<100, 101, 103, 114, 101, 101>>,                                                \* degree
       <<121, 101, 97, 114, 115>>,                                                      \* years
       <<119, 111, 114, 107>>,                                                          \* work
       <<116, 101, 97, 109>>,                                                           \* team
       <<114, 111, 108, 101>>,                                                          \* role
       <<112, 111, 115, 105, 116, 105, 111, 110>>,                                      \* position
       <<106, 111, 98>>,                                                                \* job
       <<99, 97, 114, 101, 101, 114>> >>                                                \* career

MIN_DESCRIPTION_LENGTH == 50
MIN_KEYWORD_COUNT == 2

\* JobContentExtractor.validateJobContent
validateJobContent(content) ==
    IF content = NoObject \/ content.description = <<>> THEN FALSE
    ELSE LET description  == toLowerCase(content.description)
             keywordCount == Cardinality({i \in 1..Len(jobKeywords) :
                                             includes(description, jobKeywords[i])})
         IN  Len(content.description) > MIN_DESCRIPTION_LENGTH
                 /\ keywordCount >= MIN_KEYWORD_COUNT

----------------------------------------------------------------------------
(* The analysis cache: Map<string, CachedAnalysis>, kept as the sequence   *)
(* of its entries in insertion order (the iteration order of a Map).       *)

CacheKeys(cache) == {cache[i].key : i \in 1..Len(cache)}

\* Map.prototype.values as a set
Range(cache) == {cache[i] : i \in 1..Len(cache)}

RECURSIVE SelectEntries(_, _)
SelectEntries(cache, keep) ==
    IF cache = <<>> THEN <<>>
    ELSE IF Head(cache).key \in keep
         THEN <<Head(cache)>> \o SelectEntries(Tail(cache), keep)
         ELSE SelectEntries(Tail(cache), keep)

\* Map.prototype.delete for a set of keys
mapDelete(cache, keys) == SelectEntries(cache, CacheKeys(cache) \ keys)

\* Map.prototype.get: NoObject or the entry
mapGet(cache, key) ==
    IF key \in CacheKeys(cache)
    THEN cache[CHOOSE i \in 1..Len(cache) : cache[i].key = key]
    ELSE NoObject

\* Map.prototype.set: an existing key keeps its position
mapSet(cache, entry) ==
    IF entry.key \in CacheKeys(cache)
    THEN [i \in 1..Len(cache) |-> IF cache[i].key = entry.key THEN entry ELSE cache[i]]
    ELSE Append(cache, entry)

isExpiredAtDeadline(entry, t) == t >= entry.expiresAt

isExpiredLate(entry, t) == t > entry.expiresAt + 1

\* new Date() > cached.expiresAt
isExpired(entry, t) == t > entry.expiresAt

\* getCachedAnalysis: the entry handed back (NoObject for none) and the cache left
getCachedAnalysis(cache, cacheKey, t) ==
    LET cached == mapGet(cache, cacheKey)
    IN  IF cached = NoObject THEN [cached |-> NoObject, cache |-> cache]
        ELSE IF isExpired(cached, t)
             THEN [cached |-> NoObject, cache |-> mapDelete(cache, {cacheKey})]
             ELSE [cached |-> cached, cache |-> cache]

\* Math.floor(this.MAX_CACHE_SIZE * 0.2)
removeCount == (MAX_CACHE_SIZE * 2) \div 10

\* entries.sort by extractedAt (a stable sort): position i sorts before j
sortsBefore(cache, i, j) ==
    \/ cache[i].extractedAt < cache[j].extractedAt
    \/ cache[i].extractedAt = cache[j].extractedAt /\ i < j

firstInserted(cache, n) == {cache[i].key : i \in 1..Len(cache) \cap 1..n}

\* the keys of entries[0 .. n-1] after the sort
oldestFirst(cache, n) ==
    {cache[i].key : i \in {k \in 1..Len(cache) :
        Cardinality({j \in 1..Len(cache) : sortsBefore(cache, j, k)}) < n}}

\* cleanupCache: the keys it deletes
toDelete(cache, t) ==
    LET expired == {cache[i].key : i \in {k \in 1..Len(cache) : isExpired(cache[k], t)}}
    IN  IF expired = {} THEN oldestFirst(cache, removeCount) ELSE expired

noCleanup(cache, t) == cache

\* cleanupCache()
cleanupCache(cache, t) == mapDelete(cache, toDelete(cache, t))

\* cacheAnalysis: the cache after storing, and the entries cleanupCache deleted
cacheAnalysis(cache, cacheKey, jobUrl, contentHash, analysis, t) ==
    LET atCapacity == Len(cache) >= MAX_CACHE_SIZE
        cleaned    == IF atCapacity THEN cleanupCache(cache, t) ELSE cache
        cached     == [key |-> cacheKey, jobUrl |-> jobUrl, contentHash |-> contentHash,
                       analysis |-> analysis, extractedAt |-> t,
                       expiresAt |-> t + CACHE_DURATION_MS]
    IN  [cache   |-> mapSet(cleaned, cached),
         deleted |-> Range(cache) \ Range(cleaned)]

----------------------------------------------------------------------------
(* performAnalysis.  A run is one invocation; its pc names the await it is *)
(* suspended at:                                                           *)
(*   "extract"       measure(extractSkills)           lines 181-188        *)
(*   "profile"       getUserProfile()                 line 195             *)
(*   "match"         measure(analyzeSkillGap)         lines 224-232        *)
(*   "trackComplete" trackEvent after caching         line 240             *)
(*   "trackHit"      trackEvent after a cache hit     line 164             *)
(*   "trackError"    trackError in the catch block    line 258             *)
(*   "done"          returned; the promise is settled                      *)

\* the calls, clock advances and page changes so far stay within MaxEvents
WithinBudget == Len(requests) + ticks + navigations < MaxEvents

Outstanding == {i \in 1..Len(runs) : runs[i].pc # "done"}

ERR_NO_JOB_PAGE == "No job page detected"
ERR_INVALID_CONTENT == "Failed to extract valid job content"
ERR_NO_PROFILE == "User profile not found"
ERR_EXTRACTOR == "Analysis failed: Skill extraction engine not initialized"
ERR_MATCHER == "Analysis failed: Skill matching engine not initialized"

NewRun(forceRefresh) ==
    [forceRefresh |-> forceRefresh, pc |-> "done", page |-> page, url |-> <<>>,
     contentHash |-> <<>>, cacheKey |-> <<>>, result |-> NoObject, error |-> NULL,
     did |-> {}, overlaps |-> Outstanding, fromCache |-> FALSE,
     storedAt |-> NoTime]

cacheLookupAlways(forceRefresh) == TRUE

\* if (!forceRefresh): whether the cache is consulted
cacheLookupAllowed(forceRefresh) == ~forceRefresh

\* performAnalysis from its entry to its first await or, when it returns
\* without awaiting, to its end: the run and the cache it leaves
performAnalysisSync(forceRefresh) ==
    LET jobInfo     == detectCurrentPage(page)
        jobContent  == extractJobContent(page, jobInfo)
        contentHash == generateContentHash(jobContent)
        cacheKey    == generateCacheKey(jobInfo.url, contentHash)
        lookup      == getCachedAnalysis(analysisCache, cacheKey, now)
        keyed       == [NewRun(forceRefresh) EXCEPT !.url = jobInfo.url,
                            !.contentHash = contentHash, !.cacheKey = cacheKey]
    IN  IF jobInfo = NoObject
        THEN [run   |-> [NewRun(forceRefresh) EXCEPT !.error = ERR_NO_JOB_PAGE],
              cache |-> analysisCache]
        ELSE IF jobContent = NoObject \/ ~validateJobContent(jobContent)
        THEN [run   |-> [NewRun(forceRefresh) EXCEPT !.error = ERR_INVALID_CONTENT],
              cache |-> analysisCache]
        ELSE IF cacheLookupAllowed(forceRefresh) /\ lookup.cached # NoObject
        THEN [run   |-> [keyed EXCEPT !.pc = "trackHit", !.fromCache = TRUE,
                                      !.result = lookup.cached.analysis],
              cache |-> lookup.cache]
        ELSE IF skillExtractor = NULL
        THEN [run   |-> [keyed EXCEPT !.pc = "trackError", !.error = ERR_EXTRACTOR],
              cache |-> IF cacheLookupAllowed(forceRefresh) THEN lookup.cache
                        ELSE analysisCache]
        ELSE [run   |-> [keyed EXCEPT !.pc = "extract"],
              cache |-> IF cacheLookupAllowed(forceRefresh) THEN lookup.cache
                        ELSE analysisCache]

finallyKeepsPromise(current) == current

\* finally { this.currentAnalysis = null }
finallyClause(current) == NoRun

Request(forceRefresh, run, started) ==
    [forceRefresh |-> forceRefresh, run |-> run, started |-> started, page |-> page,
     handedSettled |-> ~started /\ runs[run].pc = "done"]

\* analyzeCurrentJob(forceRefresh).  The call of performAnalysis runs to its
\* first await (or to its end, finally block included) before the
\* assignment to currentAnalysis takes place.
analyzeCurrentJob(forceRefresh) ==
    /\ Len(requests) < MaxRequests
    /\ WithinBudget
    /\ IF currentAnalysis # NoRun /\ ~forceRefresh
       THEN /\ requests' = Append(requests, Request(forceRefresh, currentAnalysis, FALSE))
            /\ UNCHANGED <<now, page, skillExtractor, skillMatcher, initPc, analysisCache,
                           currentAnalysis, runs, ticks, navigations, cleanups>>
            /\ clearedSince' = FALSE
       ELSE /\ Len(runs) < MaxRuns
            /\ Cardinality(Outstanding) < MaxOutstanding
            /\ LET started == performAnalysisSync(forceRefresh)
                   r       == Len(runs) + 1
               IN  /\ runs' = Append(runs, started.run)
                   /\ analysisCache' = started.cache
                   /\ currentAnalysis' = r
                   /\ requests' = Append(requests,
                          [forceRefresh |-> forceRefresh, run |-> r, started |-> TRUE,
                           page |-> page, handedSettled |-> FALSE])
            /\ clearedSince' = FALSE
            /\ UNCHANGED <<now, page, skillExtractor, skillMatcher, initPc, ticks,
                           navigations, cleanups>>
    /\ UNCHANGED <<calc, historyVars>>

\* extractSkills has resolved: progress 75, then getUserProfile is awaited
ExtractDone(i) ==
    /\ i \in 1..Len(runs)
    /\ runs[i].pc = "extract"
    /\ runs' = [runs EXCEPT ![i].pc = "profile", ![i].did = @ \cup {"extract"}]
    /\ UNCHANGED <<now, page, skillExtractor, skillMatcher, initPc, analysisCache,
                   currentAnalysis, requests, ticks, navigations, cleanups, clearedSince>>
    /\ UNCHANGED <<calc, historyVars>>

\* What chrome.runtime.sendMessage(GET_USER_PROFILE) can do
ProfileResponses == {"data", "no_data", "unsuccessful", "rejected"}

\* getUserProfile: the profile, or NoObject
getUserProfile(response) ==
    IF response = "data" THEN [id |-> "user"] ELSE NoObject

\* getUserProfile has resolved
ProfileDone(i, response) ==
    /\ i \in 1..Len(runs)
    /\ runs[i].pc = "profile"
    /\ LET userProfile == getUserProfile(response)
       IN  IF userProfile = NoObject
           THEN /\ runs' = [runs EXCEPT ![i].pc = "done", ![i].error = ERR_NO_PROFILE,
                                        ![i].result = NoObject,
                                        ![i].did = @ \cup {"profile"}]
                /\ currentAnalysis' = finallyClause(currentAnalysis)
           ELSE IF skillMatcher = NULL
           THEN /\ runs' = [runs EXCEPT ![i].pc = "trackError", ![i].error = ERR_MATCHER,
                                        ![i].did = @ \cup {"profile"}]
                /\ UNCHANGED currentAnalysis
           ELSE /\ runs' = [runs EXCEPT ![i].pc = "match", ![i].did = @ \cup {"profile"}]
                /\ UNCHANGED currentAnalysis
    /\ UNCHANGED <<now, page, skillExtractor, skillMatcher, initPc, analysisCache,
                   requests, ticks, navigations, cleanups, clearedSince>>
    /\ UNCHANGED <<calc, historyVars>>

\* analyzeSkillGap has resolved: the analysis is cached, then trackEvent awaited
MatchDone(i) ==
    /\ i \in 1..Len(runs)
    /\ runs[i].pc = "match"
    /\ LET analysis == [jobId |-> i, userId |-> "user", jobPage |-> runs[i].page]
           stored   == cacheAnalysis(analysisCache, runs[i].cacheKey, runs[i].url,
                                     runs[i].contentHash, analysis, now)
       IN  /\ analysisCache' = stored.cache
           /\ cleanups' = IF Len(analysisCache) >= MAX_CACHE_SIZE
                          THEN Append(cleanups, [at |-> now, deleted |-> stored.deleted])
                          ELSE cleanups
           /\ runs' = [runs EXCEPT ![i].pc = "trackComplete", ![i].result = analysis,
                                   ![i].did = @ \cup {"match"},
                                   ![i].storedAt = now]
    /\ UNCHANGED <<now, page, skillExtractor, skillMatcher, initPc, currentAnalysis,
                   requests, ticks, navigations, clearedSince>>
    /\ UNCHANGED <<calc, historyVars>>

\* the last await has resolved: return, then finally { currentAnalysis = null }
Finish(i) ==
    /\ i \in 1..Len(runs)
    /\ runs[i].pc \in {"trackComplete", "trackHit", "trackError"}
    /\ runs' = [runs EXCEPT ![i].pc = "done",
                            ![i].result = IF runs[i].pc = "trackError" THEN NoObject ELSE @]
    /\ currentAnalysis' = finallyClause(currentAnalysis)
    /\ UNCHANGED <<now, page, skillExtractor, skillMatcher, initPc, analysisCache,
                   requests, ticks, navigations, cleanups, clearedSince>>
    /\ UNCHANGED <<calc, historyVars>>

\* clearCache()
clearCache ==
    /\ analysisCache # <<>>
    /\ analysisCache' = <<>>
    /\ clearedSince' = TRUE
    /\ UNCHANGED <<now, page, skillExtractor, skillMatcher, initPc, currentAnalysis,
                   runs, requests, ticks, navigations, cleanups>>
    /\ UNCHANGED <<calc, historyVars>>

\* initialize() up to its await of skillExtractor.initialize()
InitializeBegin ==
    /\ initPc = "idle"
    /\ skillMatcher = NULL
    /\ skillExtractor' = "engine"
    /\ initPc' = "awaitEngine"
    /\ UNCHANGED <<now, page, skillMatcher, analysisCache, currentAnalysis, runs,
                   requests, ticks, navigations, cleanups, clearedSince>>
    /\ UNCHANGED <<calc, historyVars>>

\* initialize() after the await: the matching engine is set
InitializeEnd ==
    /\ initPc = "awaitEngine"
    /\ skillMatcher' = "engine"
    /\ initPc' = "idle"
    /\ UNCHANGED <<now, page, skillExtractor, analysisCache, currentAnalysis, runs,
                   requests, ticks, navigations, cleanups, clearedSince>>
    /\ UNCHANGED <<calc, historyVars>>

\* the tab shows another page (navigation or a DOM change)
Navigate(p) ==
    /\ navigations < MaxNavigations
    /\ WithinBudget
    /\ p # page
    /\ page' = p
    /\ navigations' = navigations + 1
    /\ UNCHANGED <<now, skillExtractor, skillMatcher, initPc, analysisCache,
                   currentAnalysis, runs, requests, ticks, cleanups, clearedSince>>
    /\ UNCHANGED <<calc, historyVars>>

TickSizes == {1, CACHE_DURATION_MS}

\* time passes
Tick(d) ==
    /\ ticks < MaxTicks
    /\ WithinBudget
    /\ now' = now + d
    /\ ticks' = ticks + 1
    /\ UNCHANGED <<page, navigations, skillExtractor, skillMatcher, initPc, analysisCache,
                   currentAnalysis, runs, requests, cleanups, clearedSince>>
    /\ UNCHANGED <<calc, historyVars>>

Init ==
    /\ now = 0
    /\ page = "A"
    /\ skillExtractor = NULL
    /\ skillMatcher = NULL
    /\ initPc = "idle"
    /\ analysisCache = <<>>
    /\ currentAnalysis = NoRun
    /\ runs = <<>>
    /\ requests = <<>>
    /\ ticks = 0
    /\ navigations = 0
    /\ cleanups = <<>>
    /\ clearedSince = FALSE
    /\ calc = NoCalc
    /\ storedHistory = NotStored
    /\ saves = <<>>
    /\ storageManager = NewStorageManager

Next ==
    \/ \E forceRefresh \in BOOLEAN : analyzeCurrentJob(forceRefresh)
    \/ \E i \in 1..MaxRuns : ExtractDone(i)
    \/ \E i \in 1..MaxRuns, response \in ProfileResponses : ProfileDone(i, response)
    \/ \E i \in 1..MaxRuns : MatchDone(i)
    \/ \E i \in 1..MaxRuns : Finish(i)
    \/ clearCache
    \/ InitializeBegin
    \/ InitializeEnd
    \/ \E p \in PageIds : Navigate(p)
    \/ \E d \in TickSizes : Tick(d)

Spec == Init /\ [][Next]_vars

----------------------------------------------------------------------------
(* The workflow with a full cache: MAX_CACHE_SIZE analyses of other job    *)
(* postings were stored before, the engines are initialized, and the tab   *)
(* shows page "A".  The stored entries differ in how their creation times  *)
(* relate to their Map positions:                                          *)
(*   "spread"     one entry per millisecond, oldest inserted first         *)
(*   "ties"       one entry, then four per millisecond, oldest first       *)
(*   "refreshed"  every key was stored again later than the keys inserted  *)
(*                after it, so the newest entry is first in the Map        *)

FillProfiles == {"spread", "ties", "refreshed"}

\* extractedAt of the entry at Map position i
fillTime(profile, i) ==
    CASE profile = "spread"    -> i
      [] profile = "ties"      -> (i + 6) \div 4
      [] profile = "refreshed" -> MAX_CACHE_SIZE + 1 - i

\* "example.com/NN"
FillerUrl(i) == UrlOther \o <<47, 48 + (i \div 10), 48 + (i % 10)>>

\* the entry at Map position i: the analysis of another posting with the
\* title, company and description of page "A"; with own, the entry at
\* position 1 is an earlier analysis of page "A" itself
FillerEntry(profile, i, own) ==
    LET jobInfo     == detectCurrentPage("A")
        contentHash == generateContentHash(extractJobContent("A", jobInfo))
        mine        == own /\ i = 1
        jobUrl      == IF mine THEN jobInfo.url ELSE FillerUrl(i)
    IN  [key |-> generateCacheKey(jobUrl, contentHash), jobUrl |-> jobUrl,
         contentHash |-> contentHash,
         analysis |-> [jobId |-> 0, userId |-> "user",
                       jobPage |-> IF mine THEN "A" ELSE "none"],
         extractedAt |-> fillTime(profile, i),
         expiresAt |-> fillTime(profile, i) + CACHE_DURATION_MS]

FullCache(profile, own) == [i \in 1..MAX_CACHE_SIZE |-> FillerEntry(profile, i, own)]

\* the clock when the run begins: every entry is created and none is expired,
\* or the entries created in the first millisecond are expired and those of
\* the second are at their deadline
FullStartTimes == {MAX_CACHE_SIZE, CACHE_DURATION_MS + 2}

InitFull ==
    /\ now \in FullStartTimes
    /\ page = "A"
    /\ skillExtractor = "engine"
    /\ skillMatcher = "engine"
    /\ initPc = "idle"
    /\ \E profile \in FillProfiles, own \in BOOLEAN :
           analysisCache = FullCache(profile, own)
    /\ currentAnalysis = NoRun
    /\ runs = <<>>
    /\ requests = <<>>
    /\ ticks = 0
    /\ navigations = 0
    /\ cleanups = <<>>
    /\ clearedSince = FALSE
    /\ calc = NoCalc
    /\ storedHistory = NotStored
    /\ saves = <<>>
    /\ storageManager = NewStorageManager

NextFull ==
    \/ \E forceRefresh \in BOOLEAN : analyzeCurrentJob(forceRefresh)
    \/ \E i \in 1..MaxRuns : ExtractDone(i)
    \/ \E i \in 1..MaxRuns, response \in ProfileResponses : ProfileDone(i, response)
    \/ \E i \in 1..MaxRuns : MatchDone(i)
    \/ \E i \in 1..MaxRuns : Finish(i)
    \/ \E d \in TickSizes : Tick(d)
    \/ clearCache

SpecFull == InitFull /\ [][NextFull]_vars

----------------------------------------------------------------------------
(* Vocabulary of the properties *)

RunIds == 1..Len(runs)
RequestIds == 1..Len(requests)

Succeeded(i) == runs[i].pc = "done" /\ runs[i].result # NoObject
FullPipeline == {"extract", "profile", "match"}

\* this step is a call of analyzeCurrentJob; the request it adds
IsCall == Len(requests') = Len(requests) + 1
NewRequest == requests'[Len(requests')]
\* the call starts a performAnalysis; the run it adds
StartsRun == Len(runs') = Len(runs) + 1
StartedRun == runs'[Len(runs')]
LastRequest == requests[Len(requests)]

\* this step is run i's cacheAnalysis
IsStore(i) == runs[i].pc = "match" /\ runs'[i].pc = "trackComplete"

\* The last call started run f, which ran the pipeline alone, succeeded and
\* stored its result no more than the cache duration ago; nothing else has
\* happened to the manager since, and the tab shows the same page.
AloneAndFresh(f) ==
    /\ LastRequest.started /\ LastRequest.run = f
    /\ Succeeded(f) /\ ~runs[f].fromCache
    /\ runs[f].overlaps = {} /\ Outstanding = {}
    /\ ~clearedSince
    /\ page = LastRequest.page
    /\ now <= runs[f].storedAt + CACHE_DURATION_MS

ServedFrom(f) ==
    /\ StartsRun
    /\ StartedRun.fromCache /\ StartedRun.pc = "trackHit"
    /\ StartedRun.result = runs[f].result
    /\ StartedRun.did = {}

\* C1: after a first analyzeCurrentJob(false) has run the pipeline and
\* succeeded, a second analyzeCurrentJob(false) that follows it (no other run
\* overlapping, no clearCache between) for the unchanged page within the
\* cache duration is answered with the identical analysis from the cache:
\* the second call runs no extraction, profile retrieval or matching, and a
\* run answered from the cache keeps that answer to its end.
C1_SecondCallServedFromCache ==
    /\ [][(/\ IsCall /\ ~NewRequest.forceRefresh
           /\ Len(requests) >= 1 /\ ~LastRequest.forceRefresh
           /\ AloneAndFresh(LastRequest.run))
          => ServedFrom(LastRequest.run)]_vars
    /\ [](\A i \in RunIds : runs[i].fromCache =>
              runs[i].did = {} /\ runs[i].result # NoObject /\ runs[i].result.jobId # i)

C1_Witness ==
    \E k \in RequestIds : k > 1 /\
        LET first == requests[k - 1]
            second == requests[k]
        IN  /\ ~first.forceRefresh /\ ~second.forceRefresh
            /\ first.started /\ second.started
            /\ first.page = second.page
            /\ Succeeded(first.run) /\ Succeeded(second.run)
            /\ ~runs[first.run].fromCache /\ runs[second.run].fromCache
            /\ runs[second.run].result = runs[first.run].result
            /\ now = runs[first.run].storedAt + CACHE_DURATION_MS

\* C2: a call with forceRefresh=false made while a computation is still
\* outstanding starts no new computation and is handed a pending one.
C2_NoNewComputationWhileOutstanding ==
    [][(IsCall /\ ~NewRequest.forceRefresh /\ Outstanding # {})
          => (~StartsRun /\ NewRequest.run \in Outstanding)]_vars

\* C3: when a forceRefresh=true run b was started while an earlier run a for
\* the same cache key was outstanding and both have succeeded, the entry of
\* that key (no third run having stored under it) holds b's result.
C3_ForceRefreshResultWins ==
    \A a \in RunIds, b \in RunIds :
        (/\ a < b /\ runs[b].forceRefresh /\ a \in runs[b].overlaps
         /\ runs[a].cacheKey = runs[b].cacheKey
         /\ Succeeded(a) /\ Succeeded(b) /\ ~runs[a].fromCache
         /\ \A c \in RunIds \ {a, b} :
                runs[c].cacheKey = runs[a].cacheKey => "match" \notin runs[c].did
         /\ mapGet(analysisCache, runs[b].cacheKey) # NoObject)
        => mapGet(analysisCache, runs[b].cacheKey).analysis = runs[b].result

\* C4: a request that has resolved without an analysis was given the reason:
\* the run it waited for reported an ERROR progress event after the request
\* was made.
C4_FailureIsReported ==
    \A k \in RequestIds :
        (runs[requests[k].run].pc = "done" /\ runs[requests[k].run].result = NoObject)
        => (runs[requests[k].run].error # NULL /\ ~requests[k].handedSettled)

\* C5: a request resolves to an analysis of the page that was shown when the
\* request was made.
C5_AnalysisOfRequestedPage ==
    \A k \in RequestIds :
        Succeeded(requests[k].run)
        => runs[requests[k].run].result.jobPage = requests[k].page

\* two pages that differ in the description text only
DifferInDescriptionOnly(p, q) ==
    /\ PageData(p).url = PageData(q).url
    /\ PageData(p).title = PageData(q).title
    /\ PageData(p).company = PageData(q).company
    /\ PageData(p).requirements = PageData(q).requirements
    /\ PageData(p).description # PageData(q).description

\* C6: runs on two job contents that differ in the description only compute
\* different content hashes, and neither is answered with the other's analysis.
C6_DescriptionChangesHash ==
    \A i \in RunIds, j \in RunIds :
        (/\ runs[i].cacheKey # <<>> /\ runs[j].cacheKey # <<>>
         /\ DifferInDescriptionOnly(runs[i].page, runs[j].page))
        => /\ runs[i].contentHash # runs[j].contentHash
           /\ (runs[j].result # NoObject => runs[j].result.jobPage # runs[i].page)

\* C7: a forceRefresh=true run is never answered from the cache and, when it
\* succeeds, has run the whole pipeline; its cacheAnalysis leaves its own
\* fresh analysis under the key; and a forceRefresh=false call that follows
\* it (no other run overlapping) for the same page is answered with that
\* fresh analysis.
C7_ForceRefreshBypassesAndStores ==
    /\ [](\A i \in RunIds : runs[i].forceRefresh =>
              /\ ~runs[i].fromCache
              /\ Succeeded(i) => (runs[i].did = FullPipeline /\ runs[i].result.jobId = i))
    /\ [][\A i \in RunIds : (IsStore(i) /\ runs[i].forceRefresh) =>
              /\ mapGet(analysisCache', runs[i].cacheKey) # NoObject
              /\ mapGet(analysisCache', runs[i].cacheKey).analysis = runs'[i].result
              /\ runs'[i].result.jobId = i]_vars
    /\ [][(/\ IsCall /\ ~NewRequest.forceRefresh
           /\ Len(requests) >= 1 /\ LastRequest.forceRefresh
           /\ AloneAndFresh(LastRequest.run))
          => ServedFrom(LastRequest.run)]_vars

C7_Witness ==
    \E k \in RequestIds : k > 2 /\
        LET old == requests[k - 2]
            refresh == requests[k - 1]
            last == requests[k]
        IN  /\ ~old.forceRefresh /\ refresh.forceRefresh /\ ~last.forceRefresh
            /\ old.started /\ refresh.started /\ last.started
            /\ Succeeded(old.run) /\ Succeeded(refresh.run) /\ Succeeded(last.run)
            /\ runs[old.run].cacheKey = runs[refresh.run].cacheKey
            /\ old.run \notin runs[refresh.run].overlaps
            /\ runs[refresh.run].did = FullPipeline
            /\ runs[last.run].fromCache
            /\ runs[last.run].result = runs[refresh.run].result
            /\ runs[last.run].result # runs[old.run].result

\* C8: a cache hit happens only up to CACHE_DURATION_MS after the entry was
\* stored and leaves the cache as it is; a lookup after that removes the entry
\* and goes on to the pipeline instead of answering from the cache; and every
\* store writes an entry that expires CACHE_DURATION_MS after the store.
C8_ExpiryAfterCacheDuration ==
    /\ [][(IsCall /\ StartsRun /\ StartedRun.fromCache) =>
              LET cached == mapGet(analysisCache, StartedRun.cacheKey)
              IN  /\ cached # NoObject
                  /\ now <= cached.extractedAt + CACHE_DURATION_MS
                  /\ StartedRun.result = cached.analysis
                  /\ analysisCache' = analysisCache]_vars
    /\ [][(IsCall /\ StartsRun /\ ~NewRequest.forceRefresh /\ StartedRun.cacheKey # <<>>
              /\ mapGet(analysisCache, StartedRun.cacheKey) # NoObject
              /\ now > mapGet(analysisCache, StartedRun.cacheKey).extractedAt
                           + CACHE_DURATION_MS) =>
              /\ StartedRun.cacheKey \notin CacheKeys(analysisCache')
              /\ ~StartedRun.fromCache
              /\ StartedRun.pc \in {"extract", "trackError"}]_vars
    /\ [][\A i \in RunIds : IsStore(i) =>
              LET cached == mapGet(analysisCache', runs[i].cacheKey)
              IN  /\ cached # NoObject
                  /\ cached.analysis = runs'[i].result
                  /\ cached.extractedAt = now
                  /\ cached.expiresAt = now + CACHE_DURATION_MS]_vars

\* an entry was served exactly at its deadline, and after the deadline a later
\* lookup ran the pipeline and stored again
C8_Witness ==
    \E i \in RunIds, j \in RunIds :
        /\ i < j
        /\ runs[i].cacheKey = runs[j].cacheKey
        /\ ~runs[i].forceRefresh /\ ~runs[j].forceRefresh
        /\ ~runs[i].fromCache /\ ~runs[j].fromCache
        /\ runs[i].storedAt # NoTime /\ runs[j].storedAt # NoTime
        /\ runs[j].storedAt > runs[i].storedAt + CACHE_DURATION_MS
        /\ runs[j].did = FullPipeline

\* the entries of the cache whose deadline has passed
ExpiredEntries == {e \in Range(analysisCache) : now > e.expiresAt}

\* C9: When a result is stored while the cache holds MAX_CACHE_SIZE (50)
\* entries: if at least one entry is expired, exactly the expired entries
\* are removed and no unexpired entry is; if none is expired, exactly 10
\* entries are removed, none of them created later than an entry that is
\* kept.  The stored result is then in the cache with everything not removed.
C9_EvictionAtCapacity ==
    [][\A i \in RunIds :
          (IsStore(i) /\ Len(analysisCache) >= MAX_CACHE_SIZE) =>
              LET removed == cleanups'[Len(cleanups')].deleted
                  kept    == Range(analysisCache) \ removed
              IN  /\ Len(cleanups') = Len(cleanups) + 1
                  /\ removed \subseteq Range(analysisCache)
                  /\ ExpiredEntries # {} => removed = ExpiredEntries
                  /\ ExpiredEntries = {} =>
                         /\ Cardinality(removed) = 10
                         /\ \A r \in removed, k \in kept : r.extractedAt <= k.extractedAt
                  /\ CacheKeys(analysisCache') =
                         {k.key : k \in kept} \cup {runs[i].cacheKey}
                  /\ \A k \in kept : k.key # runs[i].cacheKey =>
                         mapGet(analysisCache', k.key) = k
                  /\ mapGet(analysisCache', runs[i].cacheKey).analysis = runs'[i].result
    ]_vars

\* Two stores at capacity happened in one behaviour: one removed exactly the
\* expired entries, the other, with nothing expired, removed 10 entries; the
\* result stored last is in the cache.
C9_Witness ==
    /\ \E a, b \in 1..Len(cleanups) :
           /\ cleanups[a].deleted # {}
           /\ \A e \in cleanups[a].deleted : cleanups[a].at > e.expiresAt
           /\ Cardinality(cleanups[b].deleted) = 10
           /\ \A e \in cleanups[b].deleted : cleanups[b].at <= e.expiresAt
    /\ \E i \in RunIds : /\ runs[i].storedAt = cleanups[Len(cleanups)].at
                         /\ runs[i].cacheKey \in CacheKeys(analysisCache)

\* C10: a run whose profile retrieval fails ends at once without an analysis,
\* with the ERROR event "User profile not found", leaves the cache as it is and
\* clears currentAnalysis; no cache entry ever holds an analysis of such a run,
\* and no later call is handed the failed run: a call made when nothing is
\* current starts a new run.
C10_ProfileFailureNotReused ==
    /\ [][\A i \in RunIds : (runs[i].pc = "profile" /\ runs'[i].pc = "done") =>
              /\ runs'[i].result = NoObject
              /\ runs'[i].error = ERR_NO_PROFILE
              /\ analysisCache' = analysisCache
              /\ currentAnalysis' = NoRun]_vars
    /\ [](\A i \in RunIds : runs[i].error = ERR_NO_PROFILE =>
              /\ runs[i].pc = "done" /\ runs[i].result = NoObject
              /\ currentAnalysis # i
              /\ \A n \in 1..Len(analysisCache) : analysisCache[n].analysis.jobId # i)
    /\ [][IsCall => /\ runs'[NewRequest.run].error # ERR_NO_PROFILE
                    /\ (currentAnalysis = NoRun => StartsRun)]_vars

\* after a profile failure a later call for the same page ran the pipeline again
C10_Witness ==
    \E k \in RequestIds : k > 1 /\
        /\ runs[requests[k - 1].run].error = ERR_NO_PROFILE
        /\ requests[k].page = requests[k - 1].page
        /\ requests[k].started /\ ~requests[k].forceRefresh
        /\ requests[k].run # requests[k - 1].run
        /\ Succeeded(requests[k].run)
        /\ runs[requests[k].run].did = FullPipeline
        /\ analysisCache # <<>>

----------------------------------------------------------------------------
\* C11: an analysis requested through analyzeCurrentJob, whether or not
\* initialize() was ever called, does not fail because the extraction engine
\* is uninitialized: no run ends with the error "Skill extraction engine not
\* initialized".
C11_NoUninitializedEngineFailure ==
    \A i \in RunIds : runs[i].error # ERR_EXTRACTOR

----------------------------------------------------------------------------
(* Calls of the pure functions.  In SpecCalc every step is one call of a   *)
(* function with arguments drawn from a bounded set; calc records the      *)
(* call.  The workflow variables stay as Init leaves them.                 *)

workflowVars == <<now, page, skillExtractor, skillMatcher, initPc, analysisCache,
                  currentAnalysis, runs, requests, ticks, navigations, cleanups,
                  clearedSince>>

\* each behaviour records one call of one function
NoCallYet == calc.op = "none"

\* "work ", "team ", "role ": three of the job keywords, and the filler "x"
KeywordTexts == << <<119, 111, 114, 107, 32>>, <<116, 101, 97, 109, 32>>,
                   <<114, 111, 108, 101, 32>> >>

RECURSIVE Repeat(_, _)
Repeat(c, n) == IF n <= 0 THEN <<>> ELSE <<c>> \o Repeat(c, n - 1)

RECURSIVE FirstKeywords(_)
FirstKeywords(k) == IF k = 0 THEN <<>> ELSE FirstKeywords(k - 1) \o KeywordTexts[k]

\* a description of n characters that contains k of the job keywords
DescriptionOf(n, k) == FirstKeywords(k) \o Repeat(120, n - 5 * k)

\* lengths around MIN_DESCRIPTION_LENGTH, and the empty description
DescriptionLengths == {0} \cup (MIN_DESCRIPTION_LENGTH - 2 .. MIN_DESCRIPTION_LENGTH + 2)
KeywordCounts == 0 .. MIN_KEYWORD_COUNT + 1

ContentOf(description) ==
    [site |-> "linkedin", url |-> Url1, title |-> TitleDev, company |-> CompanyAcme,
     description |-> description, requirements |-> <<>>]

\* extractor.validateJobContent(jobContent)
ValidateJobContent(n, k) ==
    /\ NoCallYet
    /\ 5 * k <= n
    /\ calc' = [op |-> "validateJobContent", input |-> ContentOf(DescriptionOf(n, k)),
                output |-> validateJobContent(ContentOf(DescriptionOf(n, k)))]
    /\ UNCHANGED <<workflowVars, historyVars>>

\* C12: extracted job content is rejected as invalid exactly when its
\* description is missing, has fewer than 50 characters, or contains fewer
\* than 2 of the fixed job-related keywords.
C12_RejectedExactlyWhenShortOrOffTopic ==
    calc.op = "validateJobContent" =>
        LET description == calc.input.description
            keywords    == {i \in 1..Len(jobKeywords) :
                               includes(toLowerCase(description), jobKeywords[i])}
        IN  ~calc.output <=> \/ description = <<>>
                             \/ Len(description) < 50
                             \/ Cardinality(keywords) < 2

----------------------------------------------------------------------------
(* SkillMatchingEngine (matching.ts).  Numbers are exact fractions held as  *)
(* integers: category weights and confidences in tenths, proficiency        *)
(* scores in twentieths, match scores in units of 1/SCORE_ONE, and          *)
(* quotients as normalized pairs <<numerator, denominator>>.                *)

Categories == {"technical", "frameworks", "tools", "methodologies",
               "certifications", "languages", "soft_skills"}

\* this.categoryWeights, in tenths
categoryWeights(category) ==
    CASE category = "technical"      -> 10
      [] category = "frameworks"     -> 9
      [] category = "tools"          -> 8
      [] category = "methodologies"  -> 7
      [] category = "certifications" -> 9
      [] category = "languages"      -> 6
      [] category = "soft_skills"    -> 5

\* this.proficiencyScores, in twentieths
proficiencyScores(proficiency) ==
    CASE proficiency = "beginner"     -> 5
      [] proficiency = "intermediate" -> 10
      [] proficiency = "advanced"     -> 15
      [] proficiency = "expert"       -> 20

\* matchScore 1.0: 200 (1 - 0.3 gap, gap in twentieths) x 10 (confidence)
\* x 10 (category weight) x 10 (required boost)
SCORE_ONE == 200 * 10 * 10 * 10

Max(a, b) == IF a >= b THEN a ELSE b
Min(a, b) == IF a <= b THEN a ELSE b

RECURSIVE GCD(_, _)
GCD(a, b) == IF b = 0 THEN a ELSE GCD(b, a % b)

\* the fraction n/d (d > 0) in lowest terms
Rat(n, d) ==
    LET g == GCD(IF n < 0 THEN -n ELSE n, d)
    IN  IF n = 0 THEN <<0, 1>> ELSE <<n \div g, d \div g>>

RatSub(x, y) == Rat(x[1] * y[2] - y[1] * x[2], x[2] * y[2])
RatLess(x, y) == x[1] * y[2] < y[1] * x[2]

\* the keyword families of estimateRequiredProficiency
\* expert, senior, lead, architect, principal
ExpertWords ==
    << <<101, 120, 112, 101, 114, 116>>,
       <<115, 101, 110, 105, 111, 114>>,
       <<108, 101, 97, 100>>,
       <<97, 114, 99, 104, 105, 116, 101, 99, 116>>,
       <<112, 114, 105, 110, 99, 105, 112, 97, 108>> >>

\* advanced, proficient, strong, extensive
AdvancedWords ==
    << <<97, 100, 118, 97, 110, 99, 101, 100>>,
       <<112, 114, 111, 102, 105, 99, 105, 101, 110, 116>>,
       <<115, 116, 114, 111, 110, 103>>,
       <<101, 120, 116, 101, 110, 115, 105, 118, 101>> >>

\* experience, familiar, knowledge
IntermediateWords ==
    << <<101, 120, 112, 101, 114, 105, 101, 110, 99, 101>>,
       <<102, 97, 109, 105, 108, 105, 97, 114>>,
       <<107, 110, 111, 119, 108, 101, 100, 103, 101>> >>

\* basic, entry, junior, beginner
BeginnerWords ==
    << <<98, 97, 115, 105, 99>>,
       <<101, 110, 116, 114, 121>>,
       <<106, 117, 110, 105, 111, 114>>,
       <<98, 101, 103, 105, 110, 110, 101, 114>> >>

\* RegExp.test for an alternation of literals
testAny(words, text) == \E i \in 1..Len(words) : includes(text, words[i])

\* the families tried from beginner up to expert
contextLevelReversed(context) ==
    IF testAny(BeginnerWords, context) THEN 5
    ELSE IF testAny(IntermediateWords, context) THEN 10
    ELSE IF testAny(AdvancedWords, context) THEN 15
    ELSE IF testAny(ExpertWords, context) THEN 18
    ELSE 10

\* the level named by the first family found in the context, in twentieths
\* (0.9, 0.75, 0.5, 0.25; 0.5 when none is found)
contextLevel(context) ==
    IF testAny(ExpertWords, context) THEN 18
    ELSE IF testAny(AdvancedWords, context) THEN 15
    ELSE IF testAny(IntermediateWords, context) THEN 10
    ELSE IF testAny(BeginnerWords, context) THEN 5
    ELSE 10

\* SkillMatchingEngine.estimateRequiredProficiency, in twentieths
estimateRequiredProficiency(jobSkill) ==
    LET requiredLevel == contextLevel(toLowerCase(jobSkill.context))
    IN  IF jobSkill.isRequired THEN Max(requiredLevel, 10) ELSE requiredLevel

\* if (jobSkill.isRequired) matchScore *= 1.1, in tenths
requiredBoost(jobSkill) == IF jobSkill.isRequired THEN 11 ELSE 10

unclamped(matchScore) == matchScore

\* Math.max(0, Math.min(1.0, matchScore))
clampScore(matchScore) == Max(0, Min(SCORE_ONE, matchScore))

\* SkillMatchingEngine.calculateSkillMatch; proficiencyGap is <<>> for
\* undefined and <<gap>> (twentieths) otherwise
calculateSkillMatch(userSkill, jobSkill) ==
    LET userProficiencyScore     == proficiencyScores(userSkill.proficiency)
        requiredProficiencyScore == estimateRequiredProficiency(jobSkill)
        proficiencyGap == Max(0, requiredProficiencyScore - userProficiencyScore)
        matchScore     == (200 - 3 * proficiencyGap) * jobSkill.confidence
                              * categoryWeights(jobSkill.category)
                              * requiredBoost(jobSkill)
    IN  [userSkill |-> userSkill, jobSkill |-> jobSkill,
         matchScore |-> clampScore(matchScore),
         proficiencyGap |-> IF proficiencyGap > 0 THEN <<proficiencyGap>> ELSE <<>>]

\* one row of the Levenshtein matrix: matrix[j][0..len1] from matrix[j-1],
\* filled left to right (row holds the cells already computed)
RECURSIVE fillRow(_, _, _, _)
fillRow(previous, str1, ch, row) ==
    IF Len(row) > Len(str1) THEN row
    ELSE LET i    == Len(row)
             cost == IF str1[i] = ch THEN 0 ELSE 1
             cell == Min(Min(previous[i + 1] + 1, row[i] + 1), previous[i] + cost)
         IN  fillRow(previous, str1, ch, Append(row, cell))

\* the last row of the matrix, rows j..len2 still to be filled
RECURSIVE fillMatrix(_, _, _, _)
fillMatrix(previous, str1, str2, j) ==
    IF j > Len(str2) THEN previous
    ELSE fillMatrix(fillRow(previous, str1, str2[j], <<j>>), str1, str2, j + 1)

lengthDifference(str1, str2) ==
    IF Len(str1) >= Len(str2) THEN Len(str1) - Len(str2) ELSE Len(str2) - Len(str1)

\* matrix[len2][len1]
levenshtein(str1, str2) ==
    fillMatrix([i \in 1..(Len(str1) + 1) |-> i - 1], str1, str2, 1)[Len(str1) + 1]

\* SkillMatchingEngine.calculateStringSimilarity, as <<numerator, denominator>>
calculateStringSimilarity(str1, str2) ==
    LET len1   == Len(str1)
        len2   == Len(str2)
        maxLen == Max(len1, len2)
    IN  IF len1 = 0 THEN (IF len2 = 0 THEN <<1, 1>> ELSE <<0, 1>>)
        ELSE IF len2 = 0 THEN <<0, 1>>
        ELSE Rat(maxLen - levenshtein(str1, str2), maxLen)

similarAtLeast(similarity) == ~RatLess(similarity, <<4, 5>>)

\* similarity > 0.8
similarAbove(similarity) == RatLess(<<4, 5>>, similarity)

\* SkillMatchingEngine.isSimilarSkill
isSimilarSkill(skill1, skill2) ==
    similarAbove(calculateStringSimilarity(skill1, skill2))

\* skill.synonyms.forEach(synonym => userSkillMap.set(synonym.toLowerCase(), skill))
RECURSIVE setSynonyms(_, _, _)
setSynonyms(map, skill, synonyms) ==
    IF synonyms = <<>> THEN map
    ELSE setSynonyms(mapSet(map, [key |-> toLowerCase(Head(synonyms)), skill |-> skill]),
                     skill, Tail(synonyms))

\* userProfile.skills.forEach(...): the name first, then the synonyms
RECURSIVE setSkills(_, _)
setSkills(map, skills) ==
    IF skills = <<>> THEN map
    ELSE LET skill == Head(skills)
             named == mapSet(map, [key |-> toLowerCase(skill.name), skill |-> skill])
         IN  setSkills(setSynonyms(named, skill, skill.synonyms), Tail(skills))

\* the userSkillMap of analyzeSkillGap
userSkillMap(userProfile) == setSkills(<<>>, userProfile.skills)

mapHas(map, key) == key \in CacheKeys(map)

\* the synonyms of the job skill that are keys of the map, in order
synonymHits(jobSkill, map) ==
    SelectSeq(jobSkill.synonyms, LAMBDA synonym : mapHas(map, toLowerCase(synonym)))

\* the entries of the map whose key is similar to the job skill's name, in
\* iteration order
fuzzyHits(jobSkill, map) ==
    SelectSeq(map, LAMBDA entry : isSimilarSkill(toLowerCase(jobSkill.name), entry.key))

\* which of the three lookups of findMatchingUserSkill answers
lookupStage(jobSkill, map) ==
    IF mapHas(map, toLowerCase(jobSkill.name)) THEN "name"
    ELSE IF synonymHits(jobSkill, map) # <<>> THEN "synonym"
    ELSE IF fuzzyHits(jobSkill, map) # <<>> THEN "fuzzy"
    ELSE "none"

\* SkillMatchingEngine.findMatchingUserSkill: NoObject for null
findMatchingUserSkill(jobSkill, map) ==
    LET stage == lookupStage(jobSkill, map)
    IN  CASE stage = "name"    -> mapGet(map, toLowerCase(jobSkill.name)).skill
          [] stage = "synonym" -> mapGet(map, toLowerCase(Head(synonymHits(jobSkill, map)))).skill
          [] stage = "fuzzy"   -> Head(fuzzyHits(jobSkill, map)).skill
          [] stage = "none"    -> NoObject

\* SkillMatchingEngine.getSkillWeight, in units of 1/200
getSkillWeight(skill) ==
    categoryWeights(skill.category) * (IF skill.isRequired THEN 3 ELSE 2) * skill.confidence

RatMax(x, y) == IF RatLess(x, y) THEN y ELSE x
RatMin(x, y) == IF RatLess(y, x) THEN y ELSE x

RECURSIVE totalWeightedScore(_)
totalWeightedScore(matchingSkills) ==
    IF matchingSkills = <<>> THEN 0
    ELSE Head(matchingSkills).matchScore * getSkillWeight(Head(matchingSkills).jobSkill)
             + totalWeightedScore(Tail(matchingSkills))

RECURSIVE totalWeight(_)
totalWeight(matchingSkills) ==
    IF matchingSkills = <<>> THEN 0
    ELSE getSkillWeight(Head(matchingSkills).jobSkill) + totalWeight(Tail(matchingSkills))

noPenalty(missingSkillsCount) == <<0, 1>>

\* missingSkillsCount * 0.1
missingSkillsPenalty(missingSkillsCount) == Rat(missingSkillsCount, 10)

\* SkillMatchingEngine.calculateOverallMatch, as <<numerator, denominator>>
calculateOverallMatch(matchingSkills, allJobSkills) ==
    IF Len(allJobSkills) = 0 THEN <<1, 1>>
    ELSE LET weight     == totalWeight(matchingSkills)
             baseMatch  == IF weight > 0
                           THEN Rat(totalWeightedScore(matchingSkills), weight * SCORE_ONE)
                           ELSE <<0, 1>>
             penalty    == missingSkillsPenalty(Len(allJobSkills) - Len(matchingSkills))
             finalMatch == RatMax(<<0, 1>>, RatSub(baseMatch, penalty))
         IN  RatMin(<<1, 1>>, finalMatch)

\* the thresholds of calculateSkillPriority on a score held in tenths
priorityOf(priorityScore) ==
    IF priorityScore >= 800 THEN "critical"
    ELSE IF priorityScore >= 600 THEN "high"
    ELSE IF priorityScore >= 400 THEN "medium"
    ELSE "low"

\* SkillMatchingEngine.calculateSkillPriority
calculateSkillPriority(skill) ==
    priorityOf(categoryWeights(skill.category) * 40
               + (IF skill.isRequired THEN 300 ELSE 0)
               + skill.confidence * 20
               + (IF skill.category \in {"technical", "frameworks"} THEN 100 ELSE 0))

\* the switch of estimateLearningTime
baseHours(category) ==
    CASE category = "technical"      -> 80
      [] category = "frameworks"     -> 60
      [] category = "tools"          -> 30
      [] category = "methodologies"  -> 20
      [] category = "soft_skills"    -> 50
      [] category = "certifications" -> 100
      [] category = "languages"      -> 200
      [] OTHER                       -> 40

\* SkillMatchingEngine.countRelatedSkills
countRelatedSkills(targetSkill, userSkills) ==
    Cardinality({i \in 1..Len(userSkills) : userSkills[i].category = targetSkill.category})

\* Math.round of a non-negative number of hundredths
roundHundredths(x) == (x + 50) \div 100

\* SkillMatchingEngine.estimateLearningTime: multipliers in tenths
estimateLearningTime(skill, userProfile) ==
    LET experienceMultiplier == IF userProfile.experience.totalYears > 5 THEN 8 ELSE 12
        relatedSkillsCount   == countRelatedSkills(skill, userProfile.skills)
        relatedSkillsMultiplier == Max(5, 10 - relatedSkillsCount)
    IN  roundHundredths(baseHours(skill.category) * experienceMultiplier * relatedSkillsMultiplier)

TitleComplete == <<67, 111, 109, 112, 108, 101, 116, 101, 32>>    \* "Complete "
TitleCourse == <<32, 67, 111, 117, 114, 115, 101>>    \* " Course"
TitleDocumentation == <<32, 79, 102, 102, 105, 99, 105, 97, 108, 32, 68, 111, 99, 117, 109, 101, 110, 116, 97, 116, 105, 111, 110>>    \* " Official Documentation"
TitlePractice == <<32, 80, 114, 97, 99, 116, 105, 99, 101, 32, 69, 120, 101, 114, 99, 105, 115, 101, 115>>    \* " Practice Exercises"
UrlCourses == <<104, 116, 116, 112, 115, 58, 47, 47, 101, 120, 97, 109, 112, 108, 101, 46, 99, 111, 109, 47, 99, 111, 117, 114, 115, 101, 115, 47>>    \* "https://example.com/courses/"
UrlDocs == <<104, 116, 116, 112, 115, 58, 47, 47, 100, 111, 99, 115, 46>>    \* "https://docs."
UrlCom == <<46, 99, 111, 109>>    \* ".com"
UrlPractice == <<104, 116, 116, 112, 115, 58, 47, 47, 112, 114, 97, 99, 116, 105, 99, 101, 46, 99, 111, 109, 47>>    \* "https://practice.com/"

\* SkillMatchingEngine.generateLearningResources: rating in tenths (<<>>
\* when absent), duration in hours, cost in cents
generateLearningResources(skill) ==
    << [title |-> TitleComplete \o skill.name \o TitleCourse, type |-> "course",
        url |-> UrlCourses \o toLowerCase(skill.name), provider |-> "Online Learning Platform",
        rating |-> <<45>>, duration |-> 20, cost |-> 4999, difficulty |-> "intermediate"],
       [title |-> skill.name \o TitleDocumentation, type |-> "documentation",
        url |-> UrlDocs \o toLowerCase(skill.name) \o UrlCom, provider |-> "Official",
        rating |-> <<>>, duration |-> 5, cost |-> 0, difficulty |-> "intermediate"],
       [title |-> skill.name \o TitlePractice, type |-> "practice",
        url |-> UrlPractice \o toLowerCase(skill.name), provider |-> "Practice Platform",
        rating |-> <<42>>, duration |-> 10, cost |-> 0, difficulty |-> "beginner"] >>

\* the prerequisiteMap of identifyPrerequisites
prerequisiteMap ==
    << [key |-> <<114, 101, 97, 99, 116>>,
        prereqs |-> << <<106, 97, 118, 97, 115, 99, 114, 105, 112, 116>>, <<104, 116, 109, 108>>, <<99, 115, 115>> >>],
       [key |-> <<97, 110, 103, 117, 108, 97, 114>>,
        prereqs |-> << <<106, 97, 118, 97, 115, 99, 114, 105, 112, 116>>, <<116, 121, 112, 101, 115, 99, 114, 105, 112, 116>>, <<104, 116, 109, 108>>, <<99, 115, 115>> >>],
       [key |-> <<118, 117, 101>>,
        prereqs |-> << <<106, 97, 118, 97, 115, 99, 114, 105, 112, 116>>, <<104, 116, 109, 108>>, <<99, 115, 115>> >>],
       [key |-> <<110, 111, 100, 101, 46, 106, 115>>,
        prereqs |-> << <<106, 97, 118, 97, 115, 99, 114, 105, 112, 116>> >>],
       [key |-> <<101, 120, 112, 114, 101, 115, 115>>,
        prereqs |-> << <<106, 97, 118, 97, 115, 99, 114, 105, 112, 116>>, <<110, 111, 100, 101, 46, 106, 115>> >>],
       [key |-> <<100, 106, 97, 110, 103, 111>>,
        prereqs |-> << <<112, 121, 116, 104, 111, 110>> >>],
       [key |-> <<102, 108, 97, 115, 107>>,
        prereqs |-> << <<112, 121, 116, 104, 111, 110>> >>],
       [key |-> <<115, 112, 114, 105, 110, 103>>,
        prereqs |-> << <<106, 97, 118, 97>> >>],
       [key |-> <<107, 117, 98, 101, 114, 110, 101, 116, 101, 115>>,
        prereqs |-> << <<100, 111, 99, 107, 101, 114>> >>],
       [key |-> <<116, 101, 114, 114, 97, 102, 111, 114, 109>>,
        prereqs |-> << <<99, 108, 111, 117, 100, 32, 99, 111, 109, 112, 117, 116, 105, 110, 103>> >>],
       [key |-> <<106, 101, 110, 107, 105, 110, 115>>,
        prereqs |-> << <<99, 105, 47, 99, 100, 32, 98, 97, 115, 105, 99, 115>> >>] >>

\* SkillMatchingEngine.identifyPrerequisites
identifyPrerequisites(skill, userProfile) ==
    LET userSkillNames == {toLowerCase(userProfile.skills[i].name) : i \in 1..Len(userProfile.skills)}
        skillPrereqs   == IF mapHas(prerequisiteMap, toLowerCase(skill.name))
                          THEN mapGet(prerequisiteMap, toLowerCase(skill.name)).prereqs
                          ELSE <<>>
    IN  SelectSeq(skillPrereqs, LAMBDA prereq : toLowerCase(prereq) \notin userSkillNames)

\* Array.prototype.sort with a comparator that is a weak order: stable, so
\* element i lands after the elements that compare before it and the equal
\* elements that precede it
stableSort(list, compare(_, _)) ==
    LET rank(i) == Cardinality({j \in 1..Len(list) :
                        \/ compare(list[j], list[i]) < 0
                        \/ compare(list[j], list[i]) = 0 /\ j < i})
    IN  [k \in 1..Len(list) |-> list[CHOOSE i \in 1..Len(list) : rank(i) = k - 1]]

priorityOrder(priority) ==
    CASE priority = "critical" -> 4
      [] priority = "high"     -> 3
      [] priority = "medium"   -> 2
      [] priority = "low"      -> 1

unordered(a, b) == 0

\* the comparator of SkillMatchingEngine.generateRecommendations (category
\* weights in tenths)
byPriorityThenWeight(a, b) ==
    IF priorityOrder(a.priority) # priorityOrder(b.priority)
    THEN priorityOrder(b.priority) - priorityOrder(a.priority)
    ELSE categoryWeights(b.skill.category) - categoryWeights(a.skill.category)

\* the recommendation pushed for one missing skill
recommendationFor(skill, userProfile) ==
    [skill |-> skill,
     priority |-> calculateSkillPriority(skill),
     estimatedTimeToLearn |-> estimateLearningTime(skill, userProfile),
     resources |-> generateLearningResources(skill),
     prerequisites |-> identifyPrerequisites(skill, userProfile)]

\* SkillMatchingEngine.generateRecommendations
generateRecommendations(missingSkills, userProfile) ==
    stableSort([i \in 1..Len(missingSkills) |-> recommendationFor(missingSkills[i], userProfile)],
               byPriorityThenWeight)

\* the loop of analyzeSkillGap over jobPosting.extractedSkills: each job
\* skill is pushed to matchingSkills or to missingSkills
RECURSIVE analyzeEach(_, _, _)
analyzeEach(extractedSkills, map, lists) ==
    IF extractedSkills = <<>> THEN lists
    ELSE LET jobSkill         == Head(extractedSkills)
             matchedUserSkill == findMatchingUserSkill(jobSkill, map)
         IN  IF lookupStage(jobSkill, map) # "none"
             THEN analyzeEach(Tail(extractedSkills), map,
                      [lists EXCEPT !.matchingSkills =
                          Append(@, calculateSkillMatch(matchedUserSkill, jobSkill))])
             ELSE analyzeEach(Tail(extractedSkills), map,
                      [lists EXCEPT !.missingSkills = Append(@, jobSkill)])

\* SkillMatchingEngine.analyzeSkillGap (analysisDate is the time of the call)
analyzeSkillGap(userProfile, jobPosting) ==
    LET lists == analyzeEach(jobPosting.extractedSkills, userSkillMap(userProfile),
                             [matchingSkills |-> <<>>, missingSkills |-> <<>>])
        matchingSkills == lists.matchingSkills
        missingSkills  == lists.missingSkills
    IN  [jobId |-> jobPosting.id,
         userId |-> userProfile.id,
         matchingSkills |-> matchingSkills,
         missingSkills |-> missingSkills,
         overallMatch |-> calculateOverallMatch(matchingSkills, jobPosting.extractedSkills),
         recommendations |-> generateRecommendations(missingSkills, userProfile)]

----------------------------------------------------------------------------
(* SkillExtractionEngine (recommendation-engine.ts): how an ExtractedSkill  *)
(* gets its fields.  Texts are the normalized (lower-case) job text.        *)

\* entries of the skills array of buildSkillDatabase, in the order of the array:
\* javascript, python, react, postgresql, docker, kubernetes, communication, agile
skillDefinitions ==
    << [name |-> <<106, 97, 118, 97, 115, 99, 114, 105, 112, 116>>, category |-> "technical",
        synonyms |-> <<<<106, 115>>, <<101, 99, 109, 97, 115, 99, 114, 105, 112, 116>>, <<110, 111, 100, 101, 46, 106, 115>>, <<110, 111, 100, 101, 106, 115>>>>,
        patterns |-> <<<<106, 97, 118, 97, 115, 99, 114, 105, 112, 116>>, <<106, 115>>, <<110, 111, 100, 101>>>>],
       [name |-> <<112, 121, 116, 104, 111, 110>>, category |-> "technical",
        synonyms |-> <<<<112, 121>>>>,
        patterns |-> <<<<112, 121, 116, 104, 111, 110>>, <<112, 121>>>>],
       [name |-> <<114, 101, 97, 99, 116>>, category |-> "frameworks",
        synonyms |-> <<<<114, 101, 97, 99, 116, 106, 115>>, <<114, 101, 97, 99, 116, 46, 106, 115>>>>,
        patterns |-> <<<<114, 101, 97, 99, 116>>, <<114, 101, 97, 99, 116, 106, 115>>>>],
       [name |-> <<112, 111, 115, 116, 103, 114, 101, 115, 113, 108>>, category |-> "technical",
        synonyms |-> <<<<112, 111, 115, 116, 103, 114, 101, 115>>>>,
        patterns |-> <<<<112, 111, 115, 116, 103, 114, 101, 115, 113, 108>>, <<112, 111, 115, 116, 103, 114, 101, 115>>>>],
       [name |-> <<100, 111, 99, 107, 101, 114>>, category |-> "tools",
        synonyms |-> <<>>,
        patterns |-> <<<<100, 111, 99, 107, 101, 114>>>>],
       [name |-> <<107, 117, 98, 101, 114, 110, 101, 116, 101, 115>>, category |-> "tools",
        synonyms |-> <<<<107, 56, 115>>>>,
        patterns |-> <<<<107, 117, 98, 101, 114, 110, 101, 116, 101, 115>>, <<107, 56, 115>>>>],
       [name |-> <<99, 111, 109, 109, 117, 110, 105, 99, 97, 116, 105, 111, 110>>, category |-> "soft_skills",
        synonyms |-> <<<<118, 101, 114, 98, 97, 108, 32, 99, 111, 109, 109, 117, 110, 105, 99, 97, 116, 105, 111, 110>>, <<119, 114, 105, 116, 116, 101, 110, 32, 99, 111, 109, 109, 117, 110, 105, 99, 97, 116, 105, 111, 110>>>>,
        patterns |-> <<<<99, 111, 109, 109, 117, 110, 105, 99, 97, 116, 105, 111, 110>>, <<99, 111, 109, 109, 117, 110, 105, 99, 97, 116, 101>>>>],
       [name |-> <<97, 103, 105, 108, 101>>, category |-> "methodologies",
        synonyms |-> <<<<97, 103, 105, 108, 101, 32, 100, 101, 118, 101, 108, 111, 112, 109, 101, 110, 116>>>>,
        patterns |-> <<<<97, 103, 105, 108, 101>>, <<115, 99, 114, 117, 109>>>>] >>

\* the keys of this.skillDatabase: every name and every synonym
skillDatabaseKeys ==
    UNION {{skillDefinitions[i].name} \cup Range(skillDefinitions[i].synonyms)
           : i \in 1..Len(skillDefinitions)}

\* skillDatabase.get(name) for a name that is a key
skillDef(name) ==
    skillDefinitions[CHOOSE i \in 1..Len(skillDefinitions) :
        name \in {skillDefinitions[i].name} \cup Range(skillDefinitions[i].synonyms)]

\* the requiredPatterns of isSkillRequired
requiredPatterns ==
    <<<<114, 101, 113, 117, 105, 114, 101, 100>>, <<109, 117, 115, 116, 32, 104, 97, 118, 101>>, <<101, 115, 115, 101, 110, 116, 105, 97, 108>>, <<109, 97, 110, 100, 97, 116, 111, 114, 121>>, <<110, 101, 99, 101, 115, 115, 97, 114, 121>>, <<110, 101, 101, 100>>, <<115, 104, 111, 117, 108, 100, 32, 104, 97, 118, 101>>>>

\* experience, proficient, skilled, expertise
experienceWords ==
    <<<<101, 120, 112, 101, 114, 105, 101, 110, 99, 101>>, <<112, 114, 111, 102, 105, 99, 105, 101, 110, 116>>, <<115, 107, 105, 108, 108, 101, 100>>, <<101, 120, 112, 101, 114, 116, 105, 115, 101>>>>

\* SkillExtractionEngine.isSkillRequired
isSkillRequired(context) == testAny(requiredPatterns, toLowerCase(context))

\* Math.min(1.0, confidence), in tenths
capConfidence(confidence) == Min(10, confidence)

\* SkillExtractionEngine.calculateConfidence, in tenths
calculateConfidence(match, context) ==
    capConfidence(6 + (IF toLowerCase(match) \in skillDatabaseKeys THEN 2 ELSE 0)
                    + (IF isSkillRequired(context) THEN 1 ELSE 0)
                    + (IF testAny(experienceWords, toLowerCase(context)) THEN 1 ELSE 0))

\* the ExtractedSkill built by extractDirectMatches
directMatch(definition, match, context) ==
    [name |-> definition.name, category |-> definition.category,
     confidence |-> calculateConfidence(match, context), context |-> context,
     isRequired |-> isSkillRequired(context), synonyms |-> definition.synonyms]

\* the ExtractedSkill built by extractPatternMatches
patternMatch(definition, term) ==
    [name |-> definition.name, category |-> definition.category,
     confidence |-> 7, context |-> term,
     isRequired |-> FALSE, synonyms |-> definition.synonyms]

\* the ExtractedSkill built by extractSkillsFromText
contextualMatch(definition, text, confidence) ==
    [name |-> definition.name, category |-> definition.category,
     confidence |-> confidence, context |-> text,
     isRequired |-> isSkillRequired(text), synonyms |-> definition.synonyms]

----------------------------------------------------------------------------
(* Inputs of the pure functions *)

MaxJobSkills == 2
MaxUserSkills == 2

\* extracted skills: javascript from "senior javascript engineer required with expertise"; python from "strong python knowledge"; postgresql from "junior postgres need"; javascript from "node"; react from "react"; kubernetes from "basic kubernetes essential"; agile from "basic agile experience required"; communication from "communication"; react from "lead react architect"
JobSkills ==
    { directMatch(skillDef(<<106, 97, 118, 97, 115, 99, 114, 105, 112, 116>>), <<106, 97, 118, 97, 115, 99, 114, 105, 112, 116>>,
                  <<115, 101, 110, 105, 111, 114, 32, 106, 97, 118, 97, 115, 99, 114, 105, 112, 116, 32, 101, 110, 103, 105, 110, 101, 101, 114, 32, 114, 101, 113, 117, 105, 114, 101, 100, 32, 119, 105, 116, 104, 32, 101, 120, 112, 101, 114, 116, 105, 115, 101>>),
      directMatch(skillDef(<<112, 121, 116, 104, 111, 110>>), <<112, 121, 116, 104, 111, 110>>,
                  <<115, 116, 114, 111, 110, 103, 32, 112, 121, 116, 104, 111, 110, 32, 107, 110, 111, 119, 108, 101, 100, 103, 101>>),
      directMatch(skillDef(<<112, 111, 115, 116, 103, 114, 101, 115, 113, 108>>), <<112, 111, 115, 116, 103, 114, 101, 115>>,
                  <<106, 117, 110, 105, 111, 114, 32, 112, 111, 115, 116, 103, 114, 101, 115, 32, 110, 101, 101, 100>>),
      directMatch(skillDef(<<106, 97, 118, 97, 115, 99, 114, 105, 112, 116>>), <<110, 111, 100, 101>>,
                  <<110, 111, 100, 101>>),
      patternMatch(skillDef(<<114, 101, 97, 99, 116>>), <<114, 101, 97, 99, 116>>),
      contextualMatch(skillDef(<<107, 117, 98, 101, 114, 110, 101, 116, 101, 115>>),
                  <<98, 97, 115, 105, 99, 32, 107, 117, 98, 101, 114, 110, 101, 116, 101, 115, 32, 101, 115, 115, 101, 110, 116, 105, 97, 108>>, 8),
      directMatch(skillDef(<<97, 103, 105, 108, 101>>), <<97, 103, 105, 108, 101>>,
                  <<98, 97, 115, 105, 99, 32, 97, 103, 105, 108, 101, 32, 101, 120, 112, 101, 114, 105, 101, 110, 99, 101, 32, 114, 101, 113, 117, 105, 114, 101, 100>>),
      directMatch(skillDef(<<99, 111, 109, 109, 117, 110, 105, 99, 97, 116, 105, 111, 110>>), <<99, 111, 109, 109, 117, 110, 105, 99, 97, 116, 105, 111, 110>>,
                  <<99, 111, 109, 109, 117, 110, 105, 99, 97, 116, 105, 111, 110>>),
      directMatch(skillDef(<<114, 101, 97, 99, 116>>), <<114, 101, 97, 99, 116>>,
                  <<108, 101, 97, 100, 32, 114, 101, 97, 99, 116, 32, 97, 114, 99, 104, 105, 116, 101, 99, 116>>) }

\* profile skills: JavaScript (expert), Node.js (beginner), Python3 (intermediate), Postgress (advanced), React (beginner), K8s (intermediate)
UserSkills ==
    { [name |-> <<74, 97, 118, 97, 83, 99, 114, 105, 112, 116>>, category |-> "technical",
       proficiency |-> "expert", synonyms |-> <<<<106, 115>>>>],
      [name |-> <<78, 111, 100, 101, 46, 106, 115>>, category |-> "frameworks",
       proficiency |-> "beginner", synonyms |-> <<<<106, 97, 118, 97, 115, 99, 114, 105, 112, 116>>>>],
      [name |-> <<80, 121, 116, 104, 111, 110, 51>>, category |-> "technical",
       proficiency |-> "intermediate", synonyms |-> <<>>],
      [name |-> <<80, 111, 115, 116, 103, 114, 101, 115, 115>>, category |-> "technical",
       proficiency |-> "advanced", synonyms |-> <<>>],
      [name |-> <<82, 101, 97, 99, 116>>, category |-> "frameworks",
       proficiency |-> "beginner", synonyms |-> <<<<114, 101, 97, 99, 116, 106, 115>>>>],
      [name |-> <<75, 56, 115>>, category |-> "tools",
       proficiency |-> "intermediate", synonyms |-> <<>>] }

\* the sequences over a set of length at most n
SeqsUpTo(S, n) == UNION {[1..k -> S] : k \in 0..n}

\* experience and preferences of a profile: totalYears on both sides of the
\* "> 5" test, no weekly time commitment and one of 2 hours
Backgrounds ==
    { [experience |-> [totalYears |-> 5, level |-> "mid"],
       preferences |-> [timeCommitment |-> 0, focusAreas |-> <<>>]],
      [experience |-> [totalYears |-> 6, level |-> "senior"],
       preferences |-> [timeCommitment |-> 2, focusAreas |-> <<"frameworks">>]] }

Profiles ==
    {[id |-> "user", skills |-> skills, experience |-> background.experience,
      preferences |-> background.preferences] :
        skills \in SeqsUpTo(UserSkills, MaxUserSkills), background \in Backgrounds}

JobPostings ==
    {[id |-> "job", extractedSkills |-> extractedSkills] :
        extractedSkills \in SeqsUpTo(JobSkills, MaxJobSkills)}

\* a call of SkillMatchingEngine.analyzeSkillGap
AnalyzeSkillGap(userProfile, jobPosting) ==
    /\ NoCallYet
    /\ calc' = [op |-> "analyzeSkillGap",
                input |-> [userProfile |-> userProfile, jobPosting |-> jobPosting],
                output |-> analyzeSkillGap(userProfile, jobPosting)]
    /\ UNCHANGED <<workflowVars, historyVars>>


----------------------------------------------------------------------------
(* Vocabulary of the properties of analyzeSkillGap *)

IsGapAnalysis == calc.op = "analyzeSkillGap"

\* the name of the profile skill equals the job skill's name ignoring case
SameName(skill, jobSkill) == toLowerCase(skill.name) = toLowerCase(jobSkill.name)

\* the lower-cased name and synonyms of a skill
NamesOf(skill) ==
    {toLowerCase(skill.name)} \cup {toLowerCase(skill.synonyms[i]) : i \in 1..Len(skill.synonyms)}

\* an exact-name or synonym lookup of the job skill reaches the profile skill
ReachedExactly(skill, jobSkill) == NamesOf(skill) \cap NamesOf(jobSkill) # {}

\* C13: when the profile has a skill whose name equals the job skill's name
\* ignoring case, the job skill is matched and its SkillMatch pairs it with
\* such a profile skill; and a SkillMatch pairs a job skill with a profile
\* skill that no exact-name or synonym lookup reaches (a fuzzy hit) only
\* when no profile skill is reached by exact name or synonym.
C13_ExactNameWinsFuzzyLast ==
    IsGapAnalysis =>
        LET skills == Range(calc.input.userProfile.skills)
        IN  /\ \A jobSkill \in Range(calc.output.missingSkills) :
                   ~\E skill \in skills : SameName(skill, jobSkill)
            /\ \A match \in Range(calc.output.matchingSkills) :
                   /\ (\E skill \in skills : SameName(skill, match.jobSkill))
                          => SameName(match.userSkill, match.jobSkill)
                   /\ ~ReachedExactly(match.userSkill, match.jobSkill)
                          => ~\E skill \in skills : ReachedExactly(skill, match.jobSkill)

\* some key of the profile skill is more than 0.8 similar to the job skill's name
ReachedFuzzily(skill, jobSkill) ==
    \E key \in NamesOf(skill) :
        LET similarity == calculateStringSimilarity(toLowerCase(jobSkill.name), key)
        IN  5 * similarity[1] > 4 * similarity[2]

\* an exact, synonym or fuzzy lookup finds a profile skill
FoundIn(userProfile, jobSkill) ==
    \E skill \in Range(userProfile.skills) :
        ReachedExactly(skill, jobSkill) \/ ReachedFuzzily(skill, jobSkill)

\* C14: analyzeSkillGap puts each extracted job skill in exactly one of
\* matchingSkills (as the jobSkill of one SkillMatch) and missingSkills, in
\* input order, so the two lengths add up to the number of extracted skills;
\* a skill is missing exactly when no exact, synonym or fuzzy lookup finds a
\* profile skill.
C14_MatchedOrMissing ==
    IsGapAnalysis =>
        LET userProfile == calc.input.userProfile
            extracted   == calc.input.jobPosting.extractedSkills
            matching    == calc.output.matchingSkills
            missing     == calc.output.missingSkills
        IN  /\ Len(matching) + Len(missing) = Len(extracted)
            /\ [i \in 1..Len(matching) |-> matching[i].jobSkill]
                   = SelectSeq(extracted, LAMBDA jobSkill : FoundIn(userProfile, jobSkill))
            /\ missing = SelectSeq(extracted, LAMBDA jobSkill : ~FoundIn(userProfile, jobSkill))

\* a job skill found only by fuzzy similarity is matched after one that is missing
C14_Witness ==
    /\ IsGapAnalysis
    /\ Len(calc.output.missingSkills) = 1
    /\ Len(calc.output.matchingSkills) = 1
    /\ calc.input.jobPosting.extractedSkills[1] = calc.output.missingSkills[1]
    /\ ~ReachedExactly(calc.output.matchingSkills[1].userSkill, calc.output.matchingSkills[1].jobSkill)

\* every job skill that appears in the analysis or in its input
SkillsOfAnalysis ==
    Range(calc.input.jobPosting.extractedSkills)
        \cup Range(calc.output.missingSkills)
        \cup {match.jobSkill : match \in Range(calc.output.matchingSkills)}

\* C15: in every analysis of extracted skills, each extracted skill has a
\* confidence in [0,1] and a category of the fixed set, each SkillMatch has a
\* matchScore in [0,1], overallMatch is in [0,1], and a proficiencyGap is
\* present only when it is greater than 0.
C15_RangesOfTheAnalysis ==
    IsGapAnalysis =>
        /\ \A skill \in SkillsOfAnalysis :
               /\ 0 <= skill.confidence /\ skill.confidence <= 10
               /\ skill.category \in Categories
        /\ \A match \in Range(calc.output.matchingSkills) :
               /\ 0 <= match.matchScore /\ match.matchScore <= SCORE_ONE
               /\ match.proficiencyGap # <<>> => match.proficiencyGap[1] > 0
        /\ 0 <= calc.output.overallMatch[1]
        /\ calc.output.overallMatch[1] <= calc.output.overallMatch[2]

\* one match at the top of the range (confidence 1.0, required, technical,
\* no gap) next to a match that carries a gap
C15_Witness ==
    /\ IsGapAnalysis
    /\ \E match \in Range(calc.output.matchingSkills) :
           /\ match.matchScore = SCORE_ONE
           /\ match.jobSkill.confidence = 10
           /\ match.proficiencyGap = <<>>
    /\ \E match \in Range(calc.output.matchingSkills) : match.proficiencyGap # <<>>

\* the required proficiency the context names, in twentieths: the first
\* family found in the order expert, advanced, intermediate, beginner
NamedLevel(jobSkill) ==
    LET context == toLowerCase(jobSkill.context)
        found(words) == \E i \in 1..Len(words) : includes(context, words[i])
    IN  CASE found(ExpertWords)       -> 18
          [] ~found(ExpertWords) /\ found(AdvancedWords) -> 15
          [] ~found(ExpertWords) /\ ~found(AdvancedWords) /\ found(IntermediateWords) -> 10
          [] ~found(ExpertWords) /\ ~found(AdvancedWords) /\ ~found(IntermediateWords)
                 /\ found(BeginnerWords) -> 5
          [] OTHER -> 10

RequiredLevel(jobSkill) ==
    IF jobSkill.isRequired /\ NamedLevel(jobSkill) < 10 THEN 10 ELSE NamedLevel(jobSkill)

\* confidence x category weight x (1.1 if required else 1), in units of
\* 1/SCORE_ONE when multiplied by 200
FullScore(jobSkill) ==
    jobSkill.confidence * categoryWeights(jobSkill.category)
        * (IF jobSkill.isRequired THEN 11 ELSE 10)

\* C16: for every matched pair, with the required proficiency named by the
\* context (0.9, 0.75, 0.5 or 0.25, default 0.5, at least 0.5 when required):
\* when the user's score reaches it the SkillMatch has no proficiencyGap and
\* matchScore = min(1, confidence x weight x boost); otherwise the gap is
\* required - user and the score is reduced by 0.3 x gap before the products.
C16_ScoreOfAMatchedPair ==
    IsGapAnalysis =>
        \A match \in Range(calc.output.matchingSkills) :
            LET required == RequiredLevel(match.jobSkill)
                user     == proficiencyScores(match.userSkill.proficiency)
            IN  IF user >= required
                THEN /\ match.proficiencyGap = <<>>
                     /\ match.matchScore = Min(SCORE_ONE, 200 * FullScore(match.jobSkill))
                ELSE /\ match.proficiencyGap = <<required - user>>
                     /\ match.matchScore
                            = Min(SCORE_ONE, (200 - 3 * (required - user)) * FullScore(match.jobSkill))

\* a gap under a context that names two families, next to a required skill
\* whose context names the beginner level and whose score is not clamped
C16_Witness ==
    /\ IsGapAnalysis
    /\ \E match \in Range(calc.output.matchingSkills) :
           /\ match.proficiencyGap = <<5>>
           /\ testAny(AdvancedWords, match.jobSkill.context)
           /\ testAny(IntermediateWords, match.jobSkill.context)
    /\ \E match \in Range(calc.output.matchingSkills) :
           /\ match.proficiencyGap = <<>>
           /\ match.jobSkill.isRequired
           /\ testAny(BeginnerWords, match.jobSkill.context)
           /\ match.matchScore < SCORE_ONE

\* category weight x (1.5 if required else 1) x confidence, in units of 1/200
WeightOf(jobSkill) ==
    categoryWeights(jobSkill.category) * (IF jobSkill.isRequired THEN 3 ELSE 2)
        * jobSkill.confidence

RECURSIVE SumSeq(_)
SumSeq(numbers) == IF numbers = <<>> THEN 0 ELSE Head(numbers) + SumSeq(Tail(numbers))

\* C17: overallMatch is 1.0 when the job has no extracted skills (and then
\* both lists are empty); otherwise it is the average of the match scores
\* weighted by category weight x (1.5 if required) x confidence (0 when
\* nothing is matched) minus 0.1 per missing skill, clamped to [0,1].
C17_OverallMatch ==
    IsGapAnalysis =>
        LET matching == calc.output.matchingSkills
            missing  == calc.output.missingSkills
            overall  == calc.output.overallMatch
            scores   == SumSeq([i \in 1..Len(matching) |->
                            matching[i].matchScore * WeightOf(matching[i].jobSkill)])
            weights  == SumSeq([i \in 1..Len(matching) |-> WeightOf(matching[i].jobSkill)])
            \* average - penalty = numerator / denominator
            numerator   == IF weights > 0
                           THEN 10 * scores - Len(missing) * weights * SCORE_ONE
                           ELSE 0 - Len(missing)
            denominator == IF weights > 0 THEN 10 * weights * SCORE_ONE ELSE 10
        IN  IF calc.input.jobPosting.extractedSkills = <<>>
            THEN overall = <<1, 1>> /\ matching = <<>> /\ missing = <<>>
            ELSE IF numerator <= 0 THEN overall = <<0, 1>>
            ELSE IF numerator >= denominator THEN overall = <<1, 1>>
            ELSE overall = Rat(numerator, denominator)

\* one skill matched and one missing: the penalty is taken from a positive
\* average and the result lies strictly between 0 and 1
C17_Witness ==
    /\ IsGapAnalysis
    /\ Len(calc.output.matchingSkills) = 1
    /\ Len(calc.output.missingSkills) = 1
    /\ 0 < calc.output.overallMatch[1]
    /\ calc.output.overallMatch[1] < calc.output.overallMatch[2]

----------------------------------------------------------------------------
(* RecommendationEngine (recommendation-engine.ts).  Ratings are in tenths *)
(* (<<>> when absent), durations in hours, costs in cents.                 *)

\* entries of initializeResourceDatabase
resourceDatabase ==
    << [key |-> <<106, 97, 118, 97, 115, 99, 114, 105, 112, 116>>,
        resources |->
         << [title |-> "JavaScript Fundamentals", type |-> "course",
            url |-> "https://developer.mozilla.org/en-US/docs/Web/JavaScript/Guide",
            provider |-> "MDN Web Docs", rating |-> <<48>>, duration |-> 20, cost |-> 0,
            difficulty |-> "beginner"],
            [title |-> "JavaScript: The Complete Guide", type |-> "course",
            url |-> "https://www.udemy.com/course/javascript-the-complete-guide-2020-beginner-advanced/",
            provider |-> "Udemy", rating |-> <<46>>, duration |-> 52, cost |-> 8999,
            difficulty |-> "intermediate"],
            [title |-> "You Don't Know JS", type |-> "book",
            url |-> "https://github.com/getify/You-Dont-Know-JS",
            provider |-> "GitHub", rating |-> <<49>>, duration |-> 40, cost |-> 0,
            difficulty |-> "advanced"] >>],
       [key |-> <<112, 121, 116, 104, 111, 110>>,
        resources |->
         << [title |-> "Python for Everybody", type |-> "course",
            url |-> "https://www.coursera.org/specializations/python",
            provider |-> "Coursera", rating |-> <<48>>, duration |-> 32, cost |-> 0,
            difficulty |-> "beginner"],
            [title |-> "Automate the Boring Stuff with Python", type |-> "book",
            url |-> "https://automatetheboringstuff.com/",
            provider |-> "Al Sweigart", rating |-> <<47>>, duration |-> 25, cost |-> 0,
            difficulty |-> "beginner"],
            [title |-> "Python Crash Course", type |-> "book",
            url |-> "https://nostarch.com/pythoncrashcourse2e",
            provider |-> "No Starch Press", rating |-> <<46>>, duration |-> 30, cost |-> 3995,
            difficulty |-> "intermediate"] >>],
       [key |-> <<114, 101, 97, 99, 116>>,
        resources |->
         << [title |-> "React Official Tutorial", type |-> "tutorial",
            url |-> "https://reactjs.org/tutorial/tutorial.html",
            provider |-> "React Team", rating |-> <<47>>, duration |-> 8, cost |-> 0,
            difficulty |-> "beginner"],
            [title |-> "The Complete React Developer Course", type |-> "course",
            url |-> "https://www.udemy.com/course/react-2nd-edition/",
            provider |-> "Udemy", rating |-> <<47>>, duration |-> 39, cost |-> 9499,
            difficulty |-> "intermediate"],
            [title |-> "React Hooks in Action", type |-> "book",
            url |-> "https://www.manning.com/books/react-hooks-in-action",
            provider |-> "Manning", rating |-> <<45>>, duration |-> 25, cost |-> 4499,
            difficulty |-> "advanced"] >>],
       [key |-> <<110, 111, 100, 101, 46, 106, 115>>,
        resources |->
         << [title |-> "Node.js Tutorial for Beginners", type |-> "video",
            url |-> "https://www.youtube.com/watch?v=TlB_eWDSMt4",
            provider |-> "Programming with Mosh", rating |-> <<48>>, duration |-> 6, cost |-> 0,
            difficulty |-> "beginner"],
            [title |-> "The Complete Node.js Developer Course", type |-> "course",
            url |-> "https://www.udemy.com/course/the-complete-nodejs-developer-course-2/",
            provider |-> "Udemy", rating |-> <<47>>, duration |-> 35, cost |-> 8499,
            difficulty |-> "intermediate"] >>],
       [key |-> <<107, 117, 98, 101, 114, 110, 101, 116, 101, 115>>,
        resources |->
         << [title |-> "Kubernetes Basics", type |-> "course",
            url |-> "https://kubernetes.io/docs/tutorials/kubernetes-basics/",
            provider |-> "Kubernetes", rating |-> <<45>>, duration |-> 8, cost |-> 0,
            difficulty |-> "intermediate"],
            [title |-> "Certified Kubernetes Administrator (CKA)", type |-> "certification",
            url |-> "https://www.cncf.io/certification/cka/",
            provider |-> "CNCF", rating |-> <<47>>, duration |-> 120, cost |-> 37500,
            difficulty |-> "advanced"] >>],
       [key |-> <<99, 111, 109, 109, 117, 110, 105, 99, 97, 116, 105, 111, 110>>,
        resources |->
         << [title |-> "Effective Communication Skills", type |-> "course",
            url |-> "https://www.coursera.org/learn/wharton-communication-skills",
            provider |-> "Coursera", rating |-> <<46>>, duration |-> 12, cost |-> 0,
            difficulty |-> "beginner"] >>] >>

\* this.resourceDatabase[name], [] when there is none
resourcesOf(name) ==
    IF mapHas(resourceDatabase, name) THEN mapGet(resourceDatabase, name).resources ELSE <<>>

RECURSIVE synonymResources(_)
synonymResources(synonyms) ==
    IF synonyms = <<>> THEN <<>>
    ELSE resourcesOf(toLowerCase(Head(synonyms))) \o synonymResources(Tail(synonyms))

\* resources.filter((resource, index, self) => index === self.findIndex(by url))
uniqueResources(resources) ==
    LET first(i) == \A j \in 1..(i - 1) : resources[j].url # resources[i].url
        kept     == {i \in 1..Len(resources) : first(i)}
        nth(k)   == CHOOSE i \in kept : Cardinality({j \in kept : j < i}) = k - 1
    IN  [k \in 1..Cardinality(kept) |-> resources[nth(k)]]

\* !r.duration || r.duration <= preferences.timeCommitment * 4
withinTime(resource, timeCommitment) ==
    resource.duration = 0 \/ resource.duration <= timeCommitment * 4

difficultyOrder(difficulty) ==
    CASE difficulty = "beginner"     -> 1
      [] difficulty = "intermediate" -> 2
      [] difficulty = "advanced"     -> 3

\* a.rating || 0
ratingOf(resource) == IF resource.rating = <<>> THEN 0 ELSE resource.rating[1]

\* the comparator of filterAndSortResources
byCostRatingDifficulty(a, b) ==
    IF a.cost = 0 /\ b.cost > 0 THEN -1
    ELSE IF b.cost = 0 /\ a.cost > 0 THEN 1
    ELSE IF ratingOf(b) # ratingOf(a) THEN ratingOf(b) - ratingOf(a)
    ELSE difficultyOrder(a.difficulty) - difficultyOrder(b.difficulty)

\* RecommendationEngine.filterAndSortResources
filterAndSortResources(resources, preferences) ==
    LET unique       == uniqueResources(resources)
        timeFiltered == IF preferences.timeCommitment > 0
                        THEN SelectSeq(unique, LAMBDA r : withinTime(r, preferences.timeCommitment))
                        ELSE unique
    IN  stableSort(timeFiltered, byCostRatingDifficulty)

\* RecommendationEngine.findResourcesForSkill
findResourcesForSkill(skill, preferences) ==
    filterAndSortResources(resourcesOf(toLowerCase(skill.name)) \o synonymResources(skill.synonyms),
                           preferences)

\* RecommendationEngine.calculateSkillPriority, score in tenths
RecommendationEngine_calculateSkillPriority(skill, userProfile) ==
    priorityOf(skill.confidence * 40
               + (IF skill.isRequired THEN 300 ELSE 0)
               + (IF skill.category \in Range(userProfile.preferences.focusAreas) THEN 200 ELSE 0)
               + (IF skill.category \in {"technical", "tools"} THEN 100 ELSE 0))

\* the baseHours of initializeTimeEstimationRules
timeEstimationRules(category) ==
    CASE category = "technical"      -> 50
      [] category = "tools"          -> 25
      [] category = "frameworks"     -> 40
      [] category = "languages"      -> 60
      [] category = "certifications" -> 80
      [] category = "soft_skills"    -> 30
      [] category = "methodologies"  -> 35
      [] OTHER                       -> 40

\* experienceMultipliers, in tenths
experienceMultipliers(level) ==
    CASE level = "entry"     -> 15
      [] level = "mid"       -> 12
      [] level = "senior"    -> 10
      [] level = "lead"      -> 8
      [] level = "executive" -> 9

\* the relatedGroups of areSkillsRelated
relatedGroups ==
    { {<<106, 97, 118, 97, 115, 99, 114, 105, 112, 116>>,
       <<116, 121, 112, 101, 115, 99, 114, 105, 112, 116>>,
       <<110, 111, 100, 101, 46, 106, 115>>,
       <<114, 101, 97, 99, 116>>,
       <<118, 117, 101>>,
       <<97, 110, 103, 117, 108, 97, 114>>},
      {<<112, 121, 116, 104, 111, 110>>,
       <<100, 106, 97, 110, 103, 111>>,
       <<102, 108, 97, 115, 107>>,
       <<102, 97, 115, 116, 97, 112, 105>>},
      {<<106, 97, 118, 97>>,
       <<115, 112, 114, 105, 110, 103>>,
       <<104, 105, 98, 101, 114, 110, 97, 116, 101>>},
      {<<99, 35>>,
       <<46, 110, 101, 116>>,
       <<97, 115, 112, 46, 110, 101, 116>>},
      {<<97, 119, 115>>,
       <<97, 122, 117, 114, 101>>,
       <<103, 99, 112>>,
       <<100, 111, 99, 107, 101, 114>>,
       <<107, 117, 98, 101, 114, 110, 101, 116, 101, 115>>},
      {<<115, 113, 108>>,
       <<109, 121, 115, 113, 108>>,
       <<112, 111, 115, 116, 103, 114, 101, 115, 113, 108>>,
       <<109, 111, 110, 103, 111, 100, 98>>},
      {<<103, 105, 116>>,
       <<103, 105, 116, 104, 117, 98>>,
       <<103, 105, 116, 108, 97, 98>>,
       <<98, 105, 116, 98, 117, 99, 107, 101, 116>>} }

\* RecommendationEngine.areSkillsRelated
areSkillsRelated(skill1, skill2) ==
    \E group \in relatedGroups : skill1 \in group /\ skill2 \in group

\* RecommendationEngine.countRelatedSkills, in halves: 0.5 for a skill of the
\* same category and 1 for a related skill
RecommendationEngine_countRelatedSkills(skill, userSkills) ==
    SumSeq([i \in 1..Len(userSkills) |->
              (IF userSkills[i].category = skill.category THEN 1 ELSE 0)
            + (IF areSkillsRelated(toLowerCase(skill.name), toLowerCase(userSkills[i].name))
               THEN 2 ELSE 0)])

\* Math.round of the non-negative fraction n/d
roundFraction(n, d) == (2 * n + d) \div (2 * d)

\* RecommendationEngine.estimateTimeToLearn: the multipliers are
\* experience/10, max(0.5, 1 - 0.1 count) = related/20 and
\* max(0.6, 1 - commitment/40) = commitment/40
estimateTimeToLearn(skill, userProfile) ==
    LET experienceMultiplier == experienceMultipliers(userProfile.experience.level)
        relatedSkillsCount   == RecommendationEngine_countRelatedSkills(skill, userProfile.skills)
        relatedSkillsMultiplier  == Max(10, 20 - relatedSkillsCount)
        timeCommitmentMultiplier == Max(24, 40 - userProfile.preferences.timeCommitment)
    IN  roundFraction(timeEstimationRules(skill.category) * experienceMultiplier
                          * relatedSkillsMultiplier * timeCommitmentMultiplier,
                      10 * 20 * 40)

\* the prerequisites of RecommendationEngine.identifyPrerequisites
prerequisites ==
    << [key |-> <<114, 101, 97, 99, 116>>,
        prereqs |-> << <<106, 97, 118, 97, 115, 99, 114, 105, 112, 116>>, <<104, 116, 109, 108>>, <<99, 115, 115>> >>],
       [key |-> <<97, 110, 103, 117, 108, 97, 114>>,
        prereqs |-> << <<116, 121, 112, 101, 115, 99, 114, 105, 112, 116>>, <<106, 97, 118, 97, 115, 99, 114, 105, 112, 116>>, <<104, 116, 109, 108>>, <<99, 115, 115>> >>],
       [key |-> <<118, 117, 101>>,
        prereqs |-> << <<106, 97, 118, 97, 115, 99, 114, 105, 112, 116>>, <<104, 116, 109, 108>>, <<99, 115, 115>> >>],
       [key |-> <<110, 111, 100, 101, 46, 106, 115>>,
        prereqs |-> << <<106, 97, 118, 97, 115, 99, 114, 105, 112, 116>> >>],
       [key |-> <<101, 120, 112, 114, 101, 115, 115>>,
        prereqs |-> << <<106, 97, 118, 97, 115, 99, 114, 105, 112, 116>>, <<110, 111, 100, 101, 46, 106, 115>> >>],
       [key |-> <<100, 106, 97, 110, 103, 111>>,
        prereqs |-> << <<112, 121, 116, 104, 111, 110>> >>],
       [key |-> <<102, 108, 97, 115, 107>>,
        prereqs |-> << <<112, 121, 116, 104, 111, 110>> >>],
       [key |-> <<115, 112, 114, 105, 110, 103>>,
        prereqs |-> << <<106, 97, 118, 97>> >>],
       [key |-> <<97, 115, 112, 46, 110, 101, 116>>,
        prereqs |-> << <<99, 35>> >>],
       [key |-> <<107, 117, 98, 101, 114, 110, 101, 116, 101, 115>>,
        prereqs |-> << <<100, 111, 99, 107, 101, 114>>, <<99, 111, 110, 116, 97, 105, 110, 101, 114, 105, 122, 97, 116, 105, 111, 110>> >>],
       [key |-> <<116, 101, 114, 114, 97, 102, 111, 114, 109>>,
        prereqs |-> << <<99, 108, 111, 117, 100, 32, 99, 111, 109, 112, 117, 116, 105, 110, 103>>, <<105, 110, 102, 114, 97, 115, 116, 114, 117, 99, 116, 117, 114, 101>> >>],
       [key |-> <<109, 97, 99, 104, 105, 110, 101, 32, 108, 101, 97, 114, 110, 105, 110, 103>>,
        prereqs |-> << <<112, 121, 116, 104, 111, 110>>, <<115, 116, 97, 116, 105, 115, 116, 105, 99, 115>>, <<109, 97, 116, 104, 101, 109, 97, 116, 105, 99, 115>> >>] >>

\* RecommendationEngine.identifyPrerequisites: <<>> for undefined
RecommendationEngine_identifyPrerequisites(skill, userProfile) ==
    LET skillName      == toLowerCase(skill.name)
        userSkillNames == {toLowerCase(userProfile.skills[i].name) : i \in 1..Len(userProfile.skills)}
    IN  IF ~mapHas(prerequisites, skillName) THEN <<>>
        ELSE SelectSeq(mapGet(prerequisites, skillName).prereqs,
                       LAMBDA prereq : prereq \notin userSkillNames)

\* resources.slice(0, 5)
topFive(resources) == SubSeq(resources, 1, Min(5, Len(resources)))

\* RecommendationEngine.createRecommendationForSkill: <<>> for null, else
\* the one recommendation
createRecommendationForSkill(skill, userProfile) ==
    LET resources == findResourcesForSkill(skill, userProfile.preferences)
    IN  IF Len(resources) = 0 THEN <<>>
        ELSE << [skill |-> skill,
                 priority |-> RecommendationEngine_calculateSkillPriority(skill, userProfile),
                 estimatedTimeToLearn |-> estimateTimeToLearn(skill, userProfile),
                 resources |-> topFive(resources),
                 prerequisites |-> RecommendationEngine_identifyPrerequisites(skill, userProfile)] >>

RECURSIVE createEach(_, _)
createEach(missingSkills, userProfile) ==
    IF missingSkills = <<>> THEN <<>>
    ELSE createRecommendationForSkill(Head(missingSkills), userProfile)
             \o createEach(Tail(missingSkills), userProfile)

\* the comparator of RecommendationEngine.generateRecommendations
byPriorityThenTime(a, b) ==
    IF priorityOrder(b.priority) - priorityOrder(a.priority) # 0
    THEN priorityOrder(b.priority) - priorityOrder(a.priority)
    ELSE a.estimatedTimeToLearn - b.estimatedTimeToLearn

\* RecommendationEngine.generateRecommendations
RecommendationEngine_generateRecommendations(missingSkills, userProfile) ==
    stableSort(createEach(missingSkills, userProfile), byPriorityThenTime)

----------------------------------------------------------------------------
(* Vocabulary of the properties of the recommendations *)

IsEngineCall == calc.op = "generateRecommendations"

\* the recommendations of the analysis pipeline (SkillMatchingEngine) and of
\* RecommendationEngine.generateRecommendations
RecommendationsOf ==
    IF IsGapAnalysis THEN calc.output.recommendations
    ELSE IF IsEngineCall THEN calc.output
    ELSE <<>>

\* 40 x category weight + 30 if required + 20 x confidence + 10 if the
\* category is technical or frameworks, in tenths
PriorityScore(skill) ==
    4 * categoryWeights(skill.category) * 10
        + (IF skill.isRequired THEN 300 ELSE 0)
        + 2 * skill.confidence * 10
        + (IF skill.category = "technical" \/ skill.category = "frameworks" THEN 100 ELSE 0)

\* C18: the priority of every recommendation, from SkillMatchingEngine and
\* from RecommendationEngine alike, is critical when the score 40 x category
\* weight + 30 if required + 20 x confidence + 10 if technical or frameworks
\* is at least 80, high from 60, medium from 40 and low below.
C18_PriorityFromScore ==
    \A recommendation \in Range(RecommendationsOf) :
        LET score == PriorityScore(recommendation.skill)
        IN  recommendation.priority =
                CASE score >= 800 -> "critical"
                  [] score >= 600 /\ score < 800 -> "high"
                  [] score >= 400 /\ score < 600 -> "medium"
                  [] OTHER -> "low"

\* the user's weekly time commitment in the call
TimeCommitment == calc.input.userProfile.preferences.timeCommitment

\* resource a ranks strictly before resource b: free before paid, then the
\* higher rating (none counts as 0), then the lower difficulty
RanksBefore(a, b) ==
    LET paid(r)   == r.cost > 0
        rating(r) == IF r.rating = <<>> THEN 0 ELSE r.rating[1]
        level(r)  == CASE r.difficulty = "beginner" -> 1
                       [] r.difficulty = "intermediate" -> 2
                       [] r.difficulty = "advanced" -> 3
    IN  \/ ~paid(a) /\ paid(b)
        \/ paid(a) = paid(b) /\ rating(a) > rating(b)
        \/ paid(a) = paid(b) /\ rating(a) = rating(b) /\ level(a) < level(b)

\* C19: in every recommendation, of the analysis pipeline and of
\* RecommendationEngine, no resource lasts longer than 4 x the user's weekly
\* time commitment when that is positive, and the resources are ordered free
\* before paid, then by rating descending, then by difficulty ascending.
C19_ResourcesFilteredAndOrdered ==
    \A recommendation \in Range(RecommendationsOf) :
        LET resources == recommendation.resources
        IN  /\ TimeCommitment > 0 =>
                   \A resource \in Range(resources) : resource.duration <= 4 * TimeCommitment
            /\ \A i, j \in 1..Len(resources) :
                   i < j => ~RanksBefore(resources[j], resources[i])

PriorityRank(priority) ==
    CASE priority = "critical" -> 4
      [] priority = "high"     -> 3
      [] priority = "medium"   -> 2
      [] priority = "low"      -> 1

\* recommendation a outranks recommendation b: the higher priority, then the
\* higher category weight (the analysis) or the fewer hours (RecommendationEngine)
Outranks(a, b) ==
    \/ PriorityRank(a.priority) > PriorityRank(b.priority)
    \/ /\ a.priority = b.priority
       /\ IF IsEngineCall
          THEN a.estimatedTimeToLearn < b.estimatedTimeToLearn
          ELSE categoryWeights(a.skill.category) > categoryWeights(b.skill.category)

\* C20: the recommendations are ordered by priority descending and, among
\* equal priorities, by category weight descending (by estimated hours
\* ascending in RecommendationEngine.generateRecommendations): no later
\* element outranks an earlier one.
C20_RecommendationsOrdered ==
    \A i, j \in 1..Len(RecommendationsOf) :
        i < j => ~Outranks(RecommendationsOf[j], RecommendationsOf[i])

\* two missing skills of the same priority come out in the reverse of
\* their input order because the second has the heavier category
C20_Witness ==
    /\ IsGapAnalysis
    /\ Len(calc.output.recommendations) = 2
    /\ calc.output.recommendations[1].skill = calc.output.missingSkills[2]
    /\ calc.output.recommendations[1].priority = calc.output.recommendations[2].priority
    /\ categoryWeights(calc.output.recommendations[1].skill.category)
           > categoryWeights(calc.output.recommendations[2].skill.category)

----------------------------------------------------------------------------
(* Inputs and properties of calculateStringSimilarity *)

MaxNameLen == 3

\* every string over "a", "b" of at most MaxNameLen characters, and the names
\* react, reach, preact, python, pythons, jython
Names ==
    SeqsUpTo({97, 98}, MaxNameLen)
        \cup { <<114, 101, 97, 99, 116>>,
               <<114, 101, 97, 99, 104>>,
               <<112, 114, 101, 97, 99, 116>>,
               <<112, 121, 116, 104, 111, 110>>,
               <<112, 121, 116, 104, 111, 110, 115>>,
               <<106, 121, 116, 104, 111, 110>> }

IsSimilarityCall == calc.op = "calculateStringSimilarity"

\* the edit distance by its recurrence: the fewest insertions, deletions and
\* substitutions of one character that turn a into b
RECURSIVE EditDistance(_, _)
EditDistance(a, b) ==
    IF a = <<>> THEN Len(b)
    ELSE IF b = <<>> THEN Len(a)
    ELSE IF Head(a) = Head(b) THEN EditDistance(Tail(a), Tail(b))
    ELSE 1 + Min(EditDistance(Tail(a), Tail(b)),
                 Min(EditDistance(Tail(a), b), EditDistance(a, Tail(b))))

\* C26: calculateStringSimilarity(a, b) = 1 - editDistance(a, b) / max(len a,
\* len b) (1 when both are empty), lies in [0,1], is the same for (b, a), and
\* is 1 when a = b; isSimilarSkill holds exactly when it is more than 0.8.
C26_SimilarityContract ==
    IsSimilarityCall =>
        LET a          == calc.input.str1
            b          == calc.input.str2
            similarity == calc.output.similarity
            longest    == Max(Len(a), Len(b))
        IN  /\ IF longest = 0 THEN similarity = <<1, 1>>
               ELSE similarity[1] * longest = (longest - EditDistance(a, b)) * similarity[2]
            /\ similarity[2] > 0
            /\ 0 <= similarity[1] /\ similarity[1] <= similarity[2]
            /\ similarity = calculateStringSimilarity(b, a)
            /\ a = b => similarity = <<1, 1>>
            /\ calc.output.isSimilarSkill <=> 5 * similarity[1] > 4 * similarity[2]

\* two different names at similarity exactly 0.8, which is not a match
C26_Witness ==
    /\ IsSimilarityCall
    /\ calc.input.str1 # calc.input.str2
    /\ calc.output.similarity = <<4, 5>>
    /\ ~calc.output.isSimilarSkill

----------------------------------------------------------------------------
(* Properties of the workflow, continued *)

\* isAnalyzing(): this.currentAnalysis !== null
isAnalyzing == currentAnalysis # NoRun

\* C27: whenever no analysis computation is running, isAnalyzing() is false,
\* and no request made without forceRefresh was handed the finished result
\* of an earlier run instead of starting a fresh run; this covers a run that
\* ended at once because there was no job page or the content was invalid.
C27_IdleMeansNotAnalyzing ==
    /\ Outstanding = {} => ~isAnalyzing
    /\ \A k \in RequestIds : ~requests[k].handedSettled

\* the run that stored the entry (its analysis carries the run's number), or
\* NoRun for an entry that was in the cache from the start
StoredBy(entry) == entry.analysis.jobId

\* C28: the analysis cache never holds more than MAX_CACHE_SIZE (50)
\* entries, and every entry holds an analysis that was completed, under the
\* key url:contentHash of the job content the analysis was computed for.
C28_CacheBoundedAndKeyed ==
    /\ Len(analysisCache) <= 50
    /\ \A entry \in Range(analysisCache) :
           /\ entry.analysis # NoObject
           /\ entry.key = entry.jobUrl \o <<58>> \o entry.contentHash
           /\ StoredBy(entry) # NoRun =>
                  LET run     == runs[StoredBy(entry)]
                      jobInfo == detectCurrentPage(run.page)
                  IN  /\ "match" \in run.did
                      /\ run.error = NULL
                      /\ entry.analysis.jobPage = run.page
                      /\ entry.jobUrl = jobInfo.url
                      /\ entry.contentHash
                             = generateContentHash(extractJobContent(run.page, jobInfo))

\* a forced refresh has stored its analysis in a cache that was full, and
\* the cache is full again
C28_Witness ==
    /\ Len(analysisCache) = MAX_CACHE_SIZE
    /\ cleanups # <<>>
    /\ \E entry \in Range(analysisCache) :
           StoredBy(entry) # NoRun /\ runs[StoredBy(entry)].forceRefresh

-----------------------------------------------------------------------------
(* The numbers of ResumeOptimizer (src/unnamed/part_003) *)

(* A confidence is a double.  A double below 16 that is a multiple of 2^-56
   is held as the integer number of units of 2^-56, in three limbs of 20
   bits, most significant first; the operators below are the IEEE-754
   operations with rounding to nearest, ties to even, on such values. *)
LimbBase == 2^20

\* the limbs brought back into 0..LimbBase-1 after an addition or a subtraction
carry(x) ==
    LET mid == x[2] + (x[3] \div LimbBase)
    IN  <<x[1] + (mid \div LimbBase), mid % LimbBase, x[3] % LimbBase>>

\* the distance between neighbouring doubles at the magnitude of x
\* (53 significant bits)
spacing(x) ==
    IF x[1] >= 2^19 THEN 128
    ELSE IF x[1] >= 2^18 THEN 64
    ELSE IF x[1] >= 2^17 THEN 32
    ELSE IF x[1] >= 2^16 THEN 16
    ELSE IF x[1] >= 2^15 THEN 8
    ELSE IF x[1] >= 2^14 THEN 4
    ELSE IF x[1] >= 2^13 THEN 2
    ELSE 1

\* x divided by a small integer d, with the remainder
divSmall(x, d) ==
    LET t1 == (x[1] % d) * LimbBase + x[2]
        t0 == (t1 % d) * LimbBase + x[3]
    IN  [quotient |-> <<x[1] \div d, t1 \div d, t0 \div d>>, remainder |-> t0 % d]

\* x / n for an integer n, rounded to the nearest double
divideDouble(x, n) ==
    LET g == spacing(divSmall(x, n).quotient)
        d == divSmall(x, n * g)
        up == IF \/ 2 * d.remainder > n * g
                 \/ 2 * d.remainder = n * g /\ d.quotient[3] % 2 = 1
              THEN 1 ELSE 0
        q == carry(<<d.quotient[1], d.quotient[2], d.quotient[3] + up>>)
    IN  carry(<<q[1] * g, q[2] * g, q[3] * g>>)

\* x + y
addDouble(x, y) == divideDouble(carry(<<x[1] + y[1], x[2] + y[2], x[3] + y[3]>>), 1)

\* x < y
lessDouble(x, y) ==
    \/ x[1] < y[1]
    \/ x[1] = y[1] /\ x[2] < y[2]
    \/ x[1] = y[1] /\ x[2] = y[2] /\ x[3] < y[3]

\* x - y for y <= x
subtractDouble(x, y) == divideDouble(carry(<<x[1] - y[1], x[2] - y[2], x[3] - y[3]>>), 1)

\* the double that a decimal number of tenths denotes (0.1 is
\* 0x3FB999999999999A, 0.6 is 0x3FE3333333333333, ...)
toDouble(tenths) ==
    CASE tenths = 0 -> <<0, 0, 0>>
      [] tenths = 1 -> <<6553, 629145, 629146>>
      [] tenths = 2 -> <<13107, 209715, 209716>>
      [] tenths = 3 -> <<19660, 838860, 838860>>
      [] tenths = 4 -> <<26214, 419430, 419432>>
      [] tenths = 5 -> <<32768, 0, 0>>
      [] tenths = 6 -> <<39321, 629145, 629144>>
      [] tenths = 7 -> <<45875, 209715, 209712>>
      [] tenths = 8 -> <<52428, 838860, 838864>>
      [] tenths = 9 -> <<58982, 419430, 419432>>
      [] tenths = 10 -> <<65536, 0, 0>>

\* values.reduce((sum, value) => sum + value, 0)
RECURSIVE sumDouble(_)
sumDouble(values) ==
    IF values = <<>> THEN <<0, 0, 0>>
    ELSE addDouble(sumDouble(SubSeq(values, 1, Len(values) - 1)), values[Len(values)])

\* values.reduce(...) / values.length
averageDouble(values) == divideDouble(sumDouble(values), Len(values))

-----------------------------------------------------------------------------
(* ResumeOptimizer.analyzeSkillTrends (src/unnamed/part_003) *)

\* the occurrences of the skills of one entry, in the order of extractedSkills
occurrencesOf(entry) ==
    [i \in 1..Len(entry.jobPosting.extractedSkills) |->
        [skillName |-> toLowerCase(entry.jobPosting.extractedSkills[i].name),
         timestamp |-> entry.timestamp,
         importance |-> entry.jobPosting.extractedSkills[i].confidence]]

\* the occurrences pushed by the collecting loops, in the order of the pushes
RECURSIVE occurrences(_)
occurrences(analysisHistory) ==
    IF analysisHistory = <<>> THEN <<>>
    ELSE occurrencesOf(Head(analysisHistory)) \o occurrences(Tail(analysisHistory))

\* the keys of skillFrequencyByTime in insertion order
RECURSIVE firstSeen(_, _)
firstSeen(pushed, seen) ==
    IF pushed = <<>> THEN <<>>
    ELSE IF Head(pushed).skillName \in seen THEN firstSeen(Tail(pushed), seen)
    ELSE <<Head(pushed).skillName>>
            \o firstSeen(Tail(pushed), seen \cup {Head(pushed).skillName})

\* skillFrequencyByTime.get(skillName): timestamps and importances, index by index
skillFrequencyByTime(analysisHistory, skillName) ==
    SelectSeq(occurrences(analysisHistory), LAMBDA item : item.skillName = skillName)

byTimestamp(a, b) == a.timestamp - b.timestamp

byTimestampDescending(a, b) == b.timestamp - a.timestamp

\* the average importance of a half, a double
halfAverage(half) == averageDouble([i \in 1..Len(half) |-> toDouble(half[i].importance)])

\* difference > 0.1, difference < -0.1, or neither
trendDirection(firstHalfAvg, secondHalfAvg) ==
    IF /\ lessDouble(firstHalfAvg, secondHalfAvg)
       /\ lessDouble(toDouble(1), subtractDouble(secondHalfAvg, firstHalfAvg))
    THEN "increasing"
    ELSE IF /\ lessDouble(secondHalfAvg, firstHalfAvg)
            /\ lessDouble(toDouble(1), subtractDouble(firstHalfAvg, secondHalfAvg))
    THEN "decreasing"
    ELSE "stable"

\* the entry with the latest timestamp, after the sort of analysisHistory
recentEntry(analysisHistory) == stableSort(analysisHistory, byTimestampDescending)[1]

\* recentEntry.jobPosting.extractedSkills.find(...), <<>> for undefined
skillInfo(analysisHistory, skillName) ==
    SelectSeq(recentEntry(analysisHistory).jobPosting.extractedSkills,
              LAMBDA s : toLowerCase(s.name) = skillName)

\* the trends pushed for one key of skillFrequencyByTime: none or one
trendOf(analysisHistory, skillName) ==
    LET data == skillFrequencyByTime(analysisHistory, skillName)
        sortedData == stableSort(data, byTimestamp)
        middle == Len(sortedData) \div 2
        firstHalf == SubSeq(sortedData, 1, middle)
        secondHalf == SubSeq(sortedData, middle + 1, Len(sortedData))
        found == skillInfo(analysisHistory, skillName)
    IN  IF Len(data) < 2 THEN <<>>
        ELSE IF found = <<>> THEN <<>>
        ELSE <<[skillName |-> found[1].name,
                category |-> found[1].category,
                trendDirection |-> trendDirection(halfAverage(firstHalf), halfAverage(secondHalf)),
                frequency |-> Len(data),
                averageImportance |-> halfAverage(data),
                jobCount |-> Len(data)]>>

RECURSIVE trendsOf(_, _)
trendsOf(analysisHistory, skillNames) ==
    IF skillNames = <<>> THEN <<>>
    ELSE trendOf(analysisHistory, Head(skillNames)) \o trendsOf(analysisHistory, Tail(skillNames))

\* increasing trends first, then by frequency, descending
increasingThenFrequency(a, b) ==
    IF a.trendDirection = "increasing" /\ b.trendDirection # "increasing" THEN -1
    ELSE IF b.trendDirection = "increasing" /\ a.trendDirection # "increasing" THEN 1
    ELSE b.frequency - a.frequency

\* ResumeOptimizer.analyzeSkillTrends: the trends returned
analyzeSkillTrends(analysisHistory) ==
    IF Len(analysisHistory) < 3 THEN <<>>
    ELSE stableSort(trendsOf(analysisHistory, firstSeen(occurrences(analysisHistory), {})),
                    increasingThenFrequency)

\* analysisHistory after the call: sorted in place, latest first, once a skill
\* with two occurrences has been reached
historyAfterTrends(analysisHistory) ==
    IF /\ Len(analysisHistory) >= 3
       /\ \E item \in Range(occurrences(analysisHistory)) :
              Len(skillFrequencyByTime(analysisHistory, item.skillName)) >= 2
    THEN stableSort(analysisHistory, byTimestampDescending)
    ELSE analysisHistory

-----------------------------------------------------------------------------
(* Inputs of ResumeOptimizer *)

MaxHistory == 5

\* the react and python skills of a saved job, with the confidence it was
\* extracted at
TrendSkill(name, confidence) == contextualMatch(skillDef(name), name, confidence)

\* saved jobs: no skill, react at 0.6 to 0.9, python, react and python
TrendPostings ==
    {[id |-> "job", extractedSkills |-> extractedSkills] :
        extractedSkills \in
            {<<>>} \cup {<<TrendSkill(<<114, 101, 97, 99, 116>>, c)>> : c \in {6, 7, 8, 9}}
                  \cup {<<TrendSkill(<<112, 121, 116, 104, 111, 110>>, 8)>>,
                        <<TrendSkill(<<114, 101, 97, 99, 116>>, 9),
                          TrendSkill(<<112, 121, 116, 104, 111, 110>>, 8)>>}}

\* the history of the given saved jobs, as stored (latest first) or in the
\* order of the analyses; the analyses were made at times 1, 2, ...
HistoryOf(postings, latestFirst) ==
    [i \in 1..Len(postings) |->
        [timestamp |-> IF latestFirst THEN Len(postings) + 1 - i ELSE i,
         jobPosting |-> postings[i]]]

\* a call of ResumeOptimizer.analyzeSkillTrends
AnalyzeSkillTrends(analysisHistory) ==
    /\ NoCallYet
    /\ calc' = [op |-> "analyzeSkillTrends",
                input |-> [analysisHistory |-> analysisHistory],
                output |-> [trends |-> analyzeSkillTrends(analysisHistory),
                            analysisHistory |-> historyAfterTrends(analysisHistory)]]
    /\ UNCHANGED <<workflowVars, historyVars>>


-----------------------------------------------------------------------------
(* Properties of ResumeOptimizer.analyzeSkillTrends *)

IsTrendsCall == calc.op = "analyzeSkillTrends"

\* the names of the skills seen in the entries of a history
SkillsSeen(history) ==
    UNION {{toLowerCase(skill.name) : skill \in Range(history[i].jobPosting.extractedSkills)} :
              i \in DOMAIN history}

\* the confidence, in tenths, a history entry gives a skill; <<>> if it does
\* not list the skill
ConfidenceIn(entry, name) ==
    LET listed == SelectSeq(entry.jobPosting.extractedSkills,
                            LAMBDA s : toLowerCase(s.name) = name)
    IN  IF listed = <<>> THEN <<>> ELSE <<listed[1].confidence>>

\* the confidences of a skill's occurrences from the earliest entry to the
\* latest (the timestamps of a history of k entries are 1..k)
RECURSIVE ConfidencesFrom(_, _, _)
ConfidencesFrom(history, name, time) ==
    IF time > Len(history) THEN <<>>
    ELSE ConfidenceIn(CHOOSE entry \in Range(history) : entry.timestamp = time, name)
            \o ConfidencesFrom(history, name, time + 1)

\* the direction the rule gives: the averages of the first floor(n/2) and of
\* the remaining confidences differ by more than 0.1, compared as fractions
DirectionOf(confidences) ==
    LET n == Len(confidences)
        first == n \div 2
        second == n - first
        firstSum == SumSeq(SubSeq(confidences, 1, first))
        secondSum == SumSeq(SubSeq(confidences, first + 1, n))
    IN  IF secondSum * first - firstSum * second > first * second THEN "increasing"
        ELSE IF firstSum * second - secondSum * first > first * second THEN "decreasing"
        ELSE "stable"

\* C21: analyzeSkillTrends returns no trends for a history of fewer than 3
\* analyses; otherwise the direction of every trend is the one given by the
\* skill's confidences sorted by time and split into a first half of
\* floor(n/2) and a second half of the rest: increasing when the second-half
\* average exceeds the first-half average by more than 0.1, decreasing when it
\* is lower by more than 0.1, stable otherwise.
C21_TrendDirections ==
    IsTrendsCall =>
        LET history == calc.input.analysisHistory
            trends == calc.output.trends
        IN  /\ Len(history) < 3 => trends = <<>>
            /\ \A i \in DOMAIN trends :
                  trends[i].trendDirection =
                      DirectionOf(ConfidencesFrom(history, toLowerCase(trends[i].skillName), 1))

\* C22: for a history of at least 3 analyses, every skill seen in the history
\* entries has exactly one trend in the result, and its frequency is the
\* number of the skill's occurrences.
C22_OneTrendPerSkill ==
    IsTrendsCall /\ Len(calc.input.analysisHistory) >= 3 =>
        LET history == calc.input.analysisHistory
            trends == calc.output.trends
        IN  \A name \in SkillsSeen(history) :
               /\ Cardinality({i \in DOMAIN trends : toLowerCase(trends[i].skillName) = name}) = 1
               /\ \A i \in DOMAIN trends :
                     toLowerCase(trends[i].skillName) = name =>
                         trends[i].frequency = Len(ConfidencesFrom(history, name, 1))

-----------------------------------------------------------------------------
(* ResumeOptimizer.generateKeywordSuggestions (src/unnamed/part_003) *)

\* the extracted skills of the job postings, in the order of the loops of
\* analyzeKeywordFrequency
RECURSIVE allExtractedSkills(_)
allExtractedSkills(jobPostings) ==
    IF jobPostings = <<>> THEN <<>>
    ELSE Head(jobPostings).extractedSkills \o allExtractedSkills(Tail(jobPostings))

\* the keys of keywordData in insertion order
RECURSIVE keywordsSeen(_, _)
keywordsSeen(skills, seen) ==
    IF skills = <<>> THEN <<>>
    ELSE IF toLowerCase(Head(skills).name) \in seen THEN keywordsSeen(Tail(skills), seen)
    ELSE <<toLowerCase(Head(skills).name)>>
            \o keywordsSeen(Tail(skills), seen \cup {toLowerCase(Head(skills).name)})

\* analyzeKeywordFrequency: the entry of one key; skill is the first one seen
\* under the key, averageImportance is totalImportance / frequency
keywordFrequency(jobPostings, skillName) ==
    LET hits == SelectSeq(allExtractedSkills(jobPostings),
                          LAMBDA s : toLowerCase(s.name) = skillName)
    IN  [skill |-> hits[1],
         frequency |-> Len(hits),
         averageImportance |-> averageDouble([i \in 1..Len(hits) |-> toDouble(hits[i].confidence)]),
         contexts |-> [i \in 1..Len(hits) |-> hits[i].context]]

\* the suggestion pushed for one key of keywordFrequency
suggestionOf(jobPostings, userProfile, keyword) ==
    LET data == keywordFrequency(jobPostings, keyword)
        userSkillNames == {toLowerCase(userProfile.skills[i].name) : i \in DOMAIN userProfile.skills}
    IN  [keyword |-> data.skill.name,
         category |-> data.skill.category,
         frequency |-> data.frequency,
         importance |-> data.averageImportance,
         currentlyInProfile |-> keyword \in userSkillNames,
         synonyms |-> data.skill.synonyms,
         contextExamples |-> SubSeq(data.contexts, 1, Min(3, Len(data.contexts)))]

\* the suggestions before the sort
suggestionsOf(jobPostings, userProfile) ==
    LET keywords == keywordsSeen(allExtractedSkills(jobPostings), {})
    IN  [i \in 1..Len(keywords) |-> suggestionOf(jobPostings, userProfile, keywords[i])]

\* Math.abs(b.importance - a.importance) > 0.1
importanceDiffers(a, b) ==
    IF lessDouble(a.importance, b.importance)
    THEN lessDouble(toDouble(1), subtractDouble(b.importance, a.importance))
    ELSE lessDouble(toDouble(1), subtractDouble(a.importance, b.importance))

\* the comparison function of the sort, by its sign
byProfileImportanceFrequency(a, b) ==
    IF ~a.currentlyInProfile /\ b.currentlyInProfile THEN -1
    ELSE IF a.currentlyInProfile /\ ~b.currentlyInProfile THEN 1
    ELSE IF importanceDiffers(a, b)
         THEN (IF lessDouble(a.importance, b.importance) THEN 1 ELSE -1)
    ELSE b.frequency - a.frequency

\* the comparison function is a consistent comparison function for the
\* suggestions: "before" and "equal" are transitive
isConsistentComparison(suggestions) ==
    \A a \in Range(suggestions), b \in Range(suggestions), c \in Range(suggestions) :
        /\ byProfileImportanceFrequency(a, b) < 0 /\ byProfileImportanceFrequency(b, c) < 0
               => byProfileImportanceFrequency(a, c) < 0
        /\ byProfileImportanceFrequency(a, b) = 0 /\ byProfileImportanceFrequency(b, c) = 0
               => byProfileImportanceFrequency(a, c) = 0

\* the results Array.prototype.sort can leave: the stable sort, or, when the
\* comparison function is not consistent, an order the engine chooses
sortedSuggestions(suggestions) ==
    IF isConsistentComparison(suggestions)
    THEN {stableSort(suggestions, byProfileImportanceFrequency)}
    ELSE {[i \in 1..Len(suggestions) |-> suggestions[order[i]]] :
              order \in Permutations(1..Len(suggestions))}

\* ResumeOptimizer.generateKeywordSuggestions: the results it can return
generateKeywordSuggestions(jobPostings, userProfile) ==
    sortedSuggestions(suggestionsOf(jobPostings, userProfile))

MaxPostings == 3

\* saved jobs: no skill; react at 0.9 or 0.8; python at 0.8; kubernetes at
\* 1.0; react and python; python and kubernetes; the three together
KeywordPostings ==
    {[id |-> "job", extractedSkills |-> extractedSkills] :
        extractedSkills \in
            {<<>>,
             <<TrendSkill(<<114, 101, 97, 99, 116>>, 9)>>,
             <<TrendSkill(<<114, 101, 97, 99, 116>>, 8)>>,
             <<TrendSkill(<<112, 121, 116, 104, 111, 110>>, 8)>>,
             <<TrendSkill(<<107, 117, 98, 101, 114, 110, 101, 116, 101, 115>>, 10)>>,
             <<TrendSkill(<<114, 101, 97, 99, 116>>, 9),
               TrendSkill(<<112, 121, 116, 104, 111, 110>>, 8)>>,
             <<TrendSkill(<<112, 121, 116, 104, 111, 110>>, 8),
               TrendSkill(<<107, 117, 98, 101, 114, 110, 101, 116, 101, 115>>, 10)>>,
             <<TrendSkill(<<114, 101, 97, 99, 116>>, 9),
               TrendSkill(<<112, 121, 116, 104, 111, 110>>, 8),
               TrendSkill(<<107, 117, 98, 101, 114, 110, 101, 116, 101, 115>>, 10)>>}}

\* profiles with no skill, with React, and with React and Python
KeywordProfiles ==
    {[id |-> "user", skills |-> skills,
      experience |-> [totalYears |-> 5, level |-> "mid"],
      preferences |-> [timeCommitment |-> 0, focusAreas |-> <<>>]] :
        skills \in {<<>>,
                    <<[name |-> <<82, 101, 97, 99, 116>>, category |-> "frameworks",
                       proficiency |-> "beginner", synonyms |-> <<>>]>>,
                    <<[name |-> <<82, 101, 97, 99, 116>>, category |-> "frameworks",
                       proficiency |-> "beginner", synonyms |-> <<>>],
                      [name |-> <<80, 121, 116, 104, 111, 110>>, category |-> "technical",
                       proficiency |-> "intermediate", synonyms |-> <<>>]>>}}

\* a call of ResumeOptimizer.generateKeywordSuggestions
GenerateKeywordSuggestions(jobPostings, userProfile) ==
    /\ NoCallYet
    /\ \E suggestions \in generateKeywordSuggestions(jobPostings, userProfile) :
           calc' = [op |-> "generateKeywordSuggestions",
                    input |-> [jobPostings |-> jobPostings, userProfile |-> userProfile],
                    output |-> suggestions]
    /\ UNCHANGED <<workflowVars, historyVars>>

-----------------------------------------------------------------------------
(* Properties of ResumeOptimizer.generateKeywordSuggestions *)

IsSuggestionsCall == calc.op = "generateKeywordSuggestions"

\* C23: in the result of generateKeywordSuggestions every skill missing from
\* the profile precedes every skill already in the profile; among skills with
\* the same in-profile status one with higher average importance precedes one
\* with lower importance; among equal importance the higher frequency comes
\* first.
C23_SuggestionsOrdered ==
    IsSuggestionsCall =>
        \A i \in DOMAIN calc.output, j \in DOMAIN calc.output :
            i < j =>
                LET a == calc.output[i]
                    b == calc.output[j]
                IN  /\ ~(a.currentlyInProfile /\ ~b.currentlyInProfile)
                    /\ a.currentlyInProfile = b.currentlyInProfile
                           => ~lessDouble(a.importance, b.importance)
                    /\ a.currentlyInProfile = b.currentlyInProfile /\ a.importance = b.importance
                           => a.frequency >= b.frequency

-----------------------------------------------------------------------------
(* SkillExtractionEngine.extractSkills (recommendation-engine.ts): the     *)
(* three passes over a job description                                     *)

\* \w and \s of a regular expression
isWordChar(c) == c \in 48..57 \/ c \in 65..90 \/ c \in 97..122 \/ c = 95
isSpaceChar(c) == c \in {9, 10, 11, 12, 13, 32}

\* .replace(/\s+/g, ' ')
RECURSIVE collapseSpaces(_)
collapseSpaces(s) ==
    IF s = <<>> THEN <<>>
    ELSE IF isSpaceChar(Head(s))
         THEN IF Len(s) > 1 /\ isSpaceChar(s[2]) THEN collapseSpaces(Tail(s))
              ELSE <<32>> \o collapseSpaces(Tail(s))
    ELSE <<Head(s)>> \o collapseSpaces(Tail(s))

\* String.prototype.trim
RECURSIVE trimStart(_)
trimStart(s) == IF s # <<>> /\ isSpaceChar(Head(s)) THEN trimStart(Tail(s)) ELSE s
RECURSIVE trimEnd(_)
trimEnd(s) == IF s # <<>> /\ isSpaceChar(s[Len(s)]) THEN trimEnd(SubSeq(s, 1, Len(s) - 1)) ELSE s
trim(s) == trimEnd(trimStart(s))

\* SkillExtractionEngine.normalizeText: lower case, every character other
\* than \w \s - . # + / becomes a space, runs of spaces become one, trimmed
normalizeText(text) ==
    LET lower == toLowerCase(text)
        kept(c) == isWordChar(c) \/ isSpaceChar(c) \/ c \in {45, 46, 35, 43, 47}
    IN  trim(collapseSpaces([i \in 1..Len(lower) |-> IF kept(lower[i]) THEN lower[i] ELSE 32]))

\* SkillExtractionEngine.normalizeSkillName: lower case, every character
\* other than \w \s - . # + removed, runs of spaces become one, trimmed
normalizeSkillName(skillName) ==
    LET kept(c) == isWordChar(c) \/ isSpaceChar(c) \/ c \in {45, 46, 35, 43}
    IN  trim(collapseSpaces(SelectSeq(toLowerCase(skillName), kept)))

\* the entries of this.skillDatabase in insertion order: each skill under its
\* name, then under each of its synonyms (no key of the excerpt occurs twice)
RECURSIVE databaseEntries(_)
databaseEntries(skills) ==
    IF skills = <<>> THEN <<>>
    ELSE <<[key |-> Head(skills).name, skillDef |-> Head(skills)]>>
            \o [i \in 1..Len(Head(skills).synonyms) |->
                   [key |-> normalizeSkillName(Head(skills).synonyms[i]), skillDef |-> Head(skills)]]
            \o databaseEntries(Tail(skills))

skillDatabase == databaseEntries(skillDefinitions)

\* a word boundary \b before the character at offset i (0-based) of the text
wordBoundary(text, i) ==
    (i >= 1 /\ i <= Len(text) /\ isWordChar(text[i])) # (i + 1 <= Len(text) /\ isWordChar(text[i + 1]))

\* the regular expression \bpattern\b matches at offset i; no pattern of the
\* excerpt holds one of / # +, for which the code builds another expression
matchesAt(text, pattern, i) ==
    /\ i + Len(pattern) <= Len(text)
    /\ \A j \in 1..Len(pattern) : text[i + j] = pattern[j]
    /\ wordBoundary(text, i)
    /\ wordBoundary(text, i + Len(pattern))

\* text.search(regex): the offset of the first match, -1 if there is none
search(text, pattern) ==
    LET offsets == {i \in 0..Len(text) : matchesAt(text, pattern, i)}
    IN  IF offsets = {} THEN -1 ELSE CHOOSE i \in offsets : \A k \in offsets : i <= k

\* Math.max(0, matchIndex - 50)
contextStart(matchIndex) == Max(0, matchIndex - 50)

\* the skill extractDirectMatches writes for a pattern that matches: <<>> if
\* the pattern does not match
directHit(text, skillDef0, pattern) ==
    LET matchIndex == search(text, pattern)
        contextEnd == Min(Len(text), matchIndex + Len(pattern) + 50)
        context == SubSeq(text, contextStart(matchIndex) + 1, contextEnd)
    IN  IF matchIndex < 0 THEN <<>>
        ELSE <<[directMatch(skillDef0, pattern, context) EXCEPT !.context = trim(context)]>>

\* the skills written for one entry of the database: its key, the synonyms
\* and the patterns of its skill, in this order
directHitsOf(text, entry) ==
    LET patterns == <<entry.key>> \o entry.skillDef.synonyms \o entry.skillDef.patterns
        RECURSIVE each(_)
        each(k) == IF k > Len(patterns) THEN <<>>
                   ELSE directHit(text, entry.skillDef, patterns[k]) \o each(k + 1)
    IN  each(1)

\* the skills written by extractDirectMatches, in the order of the writes
RECURSIVE directHits(_, _)
directHits(text, entries) ==
    IF entries = <<>> THEN <<>>
    ELSE directHitsOf(text, Head(entries)) \o directHits(text, Tail(entries))

\* foundSkills.has(name)
hasSkill(foundSkills, name) == \E i \in DOMAIN foundSkills : foundSkills[i].name = name

\* foundSkills.set(skill.name, skill): a name already present keeps its place
setSkill(foundSkills, skill) ==
    IF hasSkill(foundSkills, skill.name)
    THEN [i \in DOMAIN foundSkills |->
             IF foundSkills[i].name = skill.name THEN skill ELSE foundSkills[i]]
    ELSE Append(foundSkills, skill)

\* the writes of extractPatternMatches and extractSkillsFromText: a name
\* already present is left alone
RECURSIVE writeAbsent(_, _)
writeAbsent(foundSkills, hits) ==
    IF hits = <<>> THEN foundSkills
    ELSE writeAbsent(IF hasSkill(foundSkills, Head(hits).name) THEN foundSkills
                     ELSE Append(foundSkills, Head(hits)), Tail(hits))

\* the writes of extractDirectMatches: every hit is set
RECURSIVE writeAll(_, _)
writeAll(foundSkills, hits) ==
    IF hits = <<>> THEN foundSkills
    ELSE writeAll(setSkill(foundSkills, Head(hits)), Tail(hits))

\* the skills extractPatternMatches would write for the nouns and adjectives
\* of the document
RECURSIVE termHits(_)
termHits(terms) ==
    IF terms = <<>> THEN <<>>
    ELSE (IF normalizeSkillName(Head(terms)) \in skillDatabaseKeys
          THEN <<patternMatch(skillDef(normalizeSkillName(Head(terms))), Head(terms))>>
          ELSE <<>>) \o termHits(Tail(terms))

experiencePatterns ==
    <<<<101, 120, 112, 101, 114, 105, 101, 110, 99, 101, 32, 119, 105, 116, 104>>,
      <<112, 114, 111, 102, 105, 99, 105, 101, 110, 116, 32, 105, 110>>,
      <<107, 110, 111, 119, 108, 101, 100, 103, 101, 32, 111, 102>>,
      <<102, 97, 109, 105, 108, 105, 97, 114, 32, 119, 105, 116, 104>>,
      <<101, 120, 112, 101, 114, 116, 105, 115, 101, 32, 105, 110>>,
      <<115, 107, 105, 108, 108, 101, 100, 32, 105, 110>>>>

\* text.split(/[,\s]+/).filter(word => word.length > 1)
RECURSIVE splitWords(_, _)
splitWords(text, word) ==
    IF text = <<>> THEN (IF Len(word) > 1 THEN <<word>> ELSE <<>>)
    ELSE IF Head(text) = 44 \/ isSpaceChar(Head(text))
         THEN (IF Len(word) > 1 THEN <<word>> ELSE <<>>) \o splitWords(Tail(text), <<>>)
    ELSE splitWords(Tail(text), Append(word, Head(text)))

\* the skills extractSkillsFromText would write for a text segment
RECURSIVE wordHits(_, _, _)
wordHits(words, text, confidence) ==
    IF words = <<>> THEN <<>>
    ELSE (IF normalizeSkillName(Head(words)) \in skillDatabaseKeys
          THEN <<contextualMatch(skillDef(normalizeSkillName(Head(words))), text, confidence)>>
          ELSE <<>>) \o wordHits(Tail(words), text, confidence)

\* the end (1-based, inclusive) of the shortest run [\w\s,.#+-]+ from
\* position q that is followed by one of . , ; \n or by the end of the
\* text; 0 if there is none
captureEnd(text, q) ==
    LET inClass(c) == isWordChar(c) \/ isSpaceChar(c) \/ c \in {44, 46, 35, 43, 45}
        ends == {e \in q..Len(text) :
                    /\ \A k \in q..e : inClass(text[k])
                    /\ e = Len(text) \/ text[e + 1] \in {46, 44, 59, 10}}
    IN  IF ends = {} THEN 0 ELSE CHOOSE e \in ends : \A k \in ends : e <= k

\* the match of  pattern\s+([\w\s,.#+-]+?)(?:.|,|;|\n|$)  that starts at
\* offset i of a text with single spaces: <<>> if there is none, else the
\* position of its last character
contextMatchAt(text, pattern, i) ==
    IF /\ i + Len(pattern) + 1 <= Len(text)
       /\ \A j \in 1..Len(pattern) : text[i + j] = pattern[j]
       /\ isSpaceChar(text[i + Len(pattern) + 1])
       /\ captureEnd(text, i + Len(pattern) + 2) > 0
    THEN <<Min(Len(text), captureEnd(text, i + Len(pattern) + 2) + 1)>>
    ELSE <<>>

\* text.match(regex) with the g flag, each match with the pattern removed and
\* trimmed: the skill texts of one experience pattern, from offset i on
RECURSIVE skillTexts(_, _, _)
skillTexts(text, pattern, i) ==
    IF i >= Len(text) THEN <<>>
    ELSE IF contextMatchAt(text, pattern, i) = <<>> THEN skillTexts(text, pattern, i + 1)
    ELSE <<trim(SubSeq(text, i + Len(pattern) + 1, contextMatchAt(text, pattern, i)[1]))>>
            \o skillTexts(text, pattern, contextMatchAt(text, pattern, i)[1])

\* the skills extractContextualSkills would write, in the order of the writes
contextualHits(text) ==
    LET RECURSIVE segments(_, _)
        segments(found, k) ==
            IF k > Len(found) THEN <<>>
            ELSE wordHits(splitWords(found[k], <<>>), found[k], 8) \o segments(found, k + 1)
        RECURSIVE phrases(_)
        phrases(p) ==
            IF p > Len(experiencePatterns) THEN <<>>
            ELSE segments(skillTexts(text, experiencePatterns[p], 0), 1) \o phrases(p + 1)
    IN  phrases(1)

\* SkillExtractionEngine.extractSkills: Array.from(foundSkills.values()) for a
\* job description and the nouns and adjectives the tagger finds in it
extractSkills(jobDescription, terms) ==
    LET normalizedText == normalizeText(jobDescription)
        direct == writeAll(<<>>, directHits(normalizedText, skillDatabase))
        tagged == writeAbsent(direct, termHits(terms))
    IN  writeAbsent(tagged, contextualHits(normalizedText))

-----------------------------------------------------------------------------
(* Inputs of SkillExtractionEngine.extractSkills *)

MaxTerms == 2

\* "3+ years required experience with React and Node.js, familiar with Docker"
ScenarioText ==
    <<51, 43, 32, 121, 101, 97, 114, 115, 32, 114, 101, 113, 117, 105, 114, 101, 100, 32, 101, 120, 112, 101, 114, 105, 101, 110, 99, 101, 32, 119, 105, 116, 104, 32, 82, 101, 97, 99, 116, 32, 97, 110, 100, 32, 78, 111, 100, 101, 46, 106, 115, 44, 32, 102, 97, 109, 105, 108, 105, 97, 114, 32, 119, 105, 116, 104, 32, 68, 111, 99, 107, 101, 114>>

\* "JavaScript is required for this role. Our backend services, our tooling and our build scripts all run on Node"
BackendText ==
    <<74, 97, 118, 97, 83, 99, 114, 105, 112, 116, 32, 105, 115, 32, 114, 101, 113, 117, 105, 114, 101, 100, 32, 102, 111, 114, 32, 116, 104, 105, 115, 32, 114, 111, 108, 101, 46, 32, 79, 117, 114, 32, 98, 97, 99, 107, 101, 110, 100, 32, 115, 101, 114, 118, 105, 99, 101, 115, 44, 32, 111, 117, 114, 32, 116, 111, 111, 108, 105, 110, 103, 32, 97, 110, 100, 32, 111, 117, 114, 32, 98, 117, 105, 108, 100, 32, 115, 99, 114, 105, 112, 116, 115, 32, 97, 108, 108, 32, 114, 117, 110, 32, 111, 110, 32, 78, 111, 100, 101>>

\* "Strong Python knowledge"
PythonText ==
    <<83, 116, 114, 111, 110, 103, 32, 80, 121, 116, 104, 111, 110, 32, 107, 110, 111, 119, 108, 101, 100, 103, 101>>

\* "Knowledge of Kubernetes and Docker is essential; familiar with agile"
PlatformText ==
    <<75, 110, 111, 119, 108, 101, 100, 103, 101, 32, 111, 102, 32, 75, 117, 98, 101, 114, 110, 101, 116, 101, 115, 32, 97, 110, 100, 32, 68, 111, 99, 107, 101, 114, 32, 105, 115, 32, 101, 115, 115, 101, 110, 116, 105, 97, 108, 59, 32, 102, 97, 109, 105, 108, 105, 97, 114, 32, 119, 105, 116, 104, 32, 97, 103, 105, 108, 101>>

\* "We value clear communication"
PlainText ==
    <<87, 101, 32, 118, 97, 108, 117, 101, 32, 99, 108, 101, 97, 114, 32, 99, 111, 109, 109, 117, 110, 105, 99, 97, 116, 105, 111, 110>>

JobDescriptions == {ScenarioText, BackendText, PythonText, PlatformText, PlainText}

\* the terms the tagger can return: words of the normalized description
TermsOf(jobDescription) ==
    LET words == splitWords(normalizeText(jobDescription), <<>>)
    IN  SeqsUpTo(Range(words), MaxTerms)

\* a call of SkillExtractionEngine.extractSkills
ExtractSkills(jobDescription, terms) ==
    /\ NoCallYet
    /\ calc' = [op |-> "extractSkills",
                input |-> [jobDescription |-> jobDescription, terms |-> terms],
                output |-> extractSkills(jobDescription, terms)]
    /\ UNCHANGED <<workflowVars, historyVars>>

-----------------------------------------------------------------------------
(* Properties of SkillExtractionEngine.extractSkills *)

IsExtractCall == calc.op = "extractSkills"

\* every hit for a skill in processing order: the direct scan over names,
\* synonyms and patterns, then the tagged terms, then the phrases
HitsOf(jobDescription, terms) ==
    directHits(normalizeText(jobDescription), skillDatabase)
        \o termHits(terms)
        \o contextualHits(normalizeText(jobDescription))

\* the first hit for a name
FirstHit(hits, name) ==
    hits[CHOOSE i \in DOMAIN hits :
            /\ hits[i].name = name
            /\ \A k \in DOMAIN hits : hits[k].name = name => i <= k]

\* C24: extractSkills returns at most one ExtractedSkill per canonical name,
\* and that skill has the confidence, the context and the isRequired written
\* by the first hit for the name in processing order; no later hit, of the
\* same pass or of a later pass, replaces them.
C24_FirstWriterWins ==
    IsExtractCall =>
        LET hits == HitsOf(calc.input.jobDescription, calc.input.terms)
        IN  /\ \A i \in DOMAIN calc.output, j \in DOMAIN calc.output :
                   calc.output[i].name = calc.output[j].name => i = j
            /\ \A i \in DOMAIN calc.output :
                   /\ calc.output[i].confidence = FirstHit(hits, calc.output[i].name).confidence
                   /\ calc.output[i].context = FirstHit(hits, calc.output[i].name).context
                   /\ calc.output[i].isRequired = FirstHit(hits, calc.output[i].name).isRequired

\* C25: extracting skills from "3+ years required experience with React and
\* Node.js, familiar with Docker" yields a skill named react that is
\* required, a skill named node.js that is required and a skill named docker
\* that is not required.
C25_ScenarioSkills ==
    IsExtractCall /\ calc.input.jobDescription = ScenarioText =>
        /\ \E i \in DOMAIN calc.output :
               calc.output[i].name = <<114, 101, 97, 99, 116>> /\ calc.output[i].isRequired
        /\ \E i \in DOMAIN calc.output :
               calc.output[i].name = <<110, 111, 100, 101, 46, 106, 115>> /\ calc.output[i].isRequired
        /\ \E i \in DOMAIN calc.output :
               calc.output[i].name = <<100, 111, 99, 107, 101, 114>> /\ ~calc.output[i].isRequired

----------------------------------------------------------------------------
(* HistoryManager.saveAnalysis over StorageManager and chrome.storage.local *)
----------------------------------------------------------------------------
(* A history entry is its id and the kind of value its timestamp field      *)
(* holds: a Date object in memory, a string once JSON.stringify wrote it.   *)
(* The value stored under 'analysis_history' is the serialized list of      *)
(* entries, either as a plain string or as an EncryptedData object.         *)

MAX_HISTORY_ENTRIES == 100

\* the size of the model: the saveAnalysis calls of one behaviour
MaxSaves == 3

\* StorageResult: the data field is <<>> where the code leaves it undefined
Failure == [success |-> FALSE, data |-> <<>>]
Success(data) == [success |-> TRUE, data |-> data]

\* JSON.stringify of the list of entries: a Date becomes an ISO string
stringify(historyEntries) ==
    [k \in DOMAIN historyEntries |-> [historyEntries[k] EXCEPT !.timestamp = "string"]]

\* what chrome.storage.local.set writes in StorageManager.store: the
\* serialized list, encrypted when the manager holds a key
storageData(historyEntries) ==
    [found |-> TRUE,
     encrypted |-> storageManager.encryptionKey # NULL,
     data |-> stringify(historyEntries)]

\* StorageManager.retrieve once chrome.storage.local.get has settled with
\* the value stored (rejects: the get promise was rejected).  An
\* EncryptedData object read by a manager without a key goes to JSON.parse
\* as it is, which throws.
retrieve(stored, rejects) ==
    IF rejects THEN Failure
    ELSE IF ~stored.found THEN Failure
    ELSE IF stored.encrypted /\ storageManager.encryptionKey = NULL THEN Failure
    ELSE Success(stored.data)

\* HistoryManager.getHistory on the result of retrieve: date strings become
\* Date objects again
getHistory(result) ==
    IF ~result.success THEN result
    ELSE Success([k \in DOMAIN result.data |->
                     [result.data[k] EXCEPT !.timestamp = "Date"]])

\* historyEntries.unshift(historyEntry) and the slice to MAX_HISTORY_ENTRIES
limitHistory(historyEntries) ==
    IF Len(historyEntries) > MAX_HISTORY_ENTRIES
    THEN SubSeq(historyEntries, 1, MAX_HISTORY_ENTRIES)
    ELSE historyEntries

\* the list saveAnalysis hands to store, from the result of getHistory
updatedHistory(existingHistory, historyEntry) ==
    LET historyEntries == IF existingHistory.success THEN existingHistory.data ELSE <<>>
    IN limitHistory(<<historyEntry>> \o historyEntries)

\* the entry of the i-th call: generateHistoryId gives every call its own id
newEntry(i) == [id |-> i, timestamp |-> "Date"]

\* the calls that have not returned yet
InFlight == {i \in DOMAIN saves : saves[i].pc # "returned"}

\* saveAnalysis is called: validation, the new entry, and getHistory up to
\* the await of chrome.storage.local.get.  An invalid profile returns at
\* once; a manager that is not initialized throws in retrieve and in store,
\* so the call returns the failure of store.
SaveAnalysis(validProfile) ==
    /\ Len(saves) < MaxSaves
    /\ LET i == Len(saves) + 1
           pc == IF validProfile /\ storageManager.isInitialized
                 THEN "retrieve" ELSE "returned"
       IN saves' = Append(saves, [pc |-> pc,
                                  historyEntry |-> newEntry(i),
                                  historyEntries |-> <<>>,
                                  during |-> InFlight,
                                  result |-> Failure])
    /\ UNCHANGED <<storedHistory, storageManager, workflowVars, calc>>

\* chrome.storage.local.get settles for call i: retrieve and getHistory
\* return, saveAnalysis prepends its entry, limits the list and calls store,
\* which runs up to the await of chrome.storage.local.set
RetrieveDone(i, rejects) ==
    /\ i \in DOMAIN saves
    /\ saves[i].pc = "retrieve"
    /\ LET existingHistory == getHistory(retrieve(storedHistory, rejects))
       IN saves' = [saves EXCEPT ![i].pc = "store",
                                 ![i].historyEntries =
                                     updatedHistory(existingHistory, saves[i].historyEntry)]
    /\ UNCHANGED <<storedHistory, storageManager, workflowVars, calc>>

\* chrome.storage.local.set settles for call i: the list is written unless
\* the promise was rejected, and saveAnalysis returns
StoreDone(i, rejects) ==
    /\ i \in DOMAIN saves
    /\ saves[i].pc = "store"
    /\ storedHistory' = IF rejects THEN storedHistory
                        ELSE storageData(saves[i].historyEntries)
    /\ saves' = [saves EXCEPT ![i].pc = "returned",
                              ![i].result = IF rejects THEN Failure
                                            ELSE Success(<<saves[i].historyEntry>>)]
    /\ UNCHANGED <<storageManager, workflowVars, calc>>

(* Inputs: the history stored by earlier sessions and the manager           *)

\* an entry stored by an earlier session
storedEntry(k) == [id |-> MAX_HISTORY_ENTRIES + k, timestamp |-> "string"]

\* lengths of the stored history: short, one below the limit, at the limit
StoredLengths == {1, MAX_HISTORY_ENTRIES - 1, MAX_HISTORY_ENTRIES}

StoredHistories ==
    {NotStored} \cup
    {[found |-> TRUE, encrypted |-> encrypted, data |-> [k \in 1..n |-> storedEntry(k)]] :
        encrypted \in BOOLEAN, n \in StoredLengths}

\* StorageManager before initialize, after initialize without a passphrase,
\* and after initialize with one
StorageManagers ==
    {NewStorageManager,
     [isInitialized |-> TRUE, encryptionKey |-> NULL],
     [isInitialized |-> TRUE, encryptionKey |-> "key"]}

InitHistory ==
    /\ now = 0
    /\ page = "A"
    /\ skillExtractor = NULL
    /\ skillMatcher = NULL
    /\ initPc = "idle"
    /\ analysisCache = <<>>
    /\ currentAnalysis = NoRun
    /\ runs = <<>>
    /\ requests = <<>>
    /\ ticks = 0
    /\ navigations = 0
    /\ cleanups = <<>>
    /\ clearedSince = FALSE
    /\ calc = NoCalc
    /\ storedHistory \in StoredHistories
    /\ saves = <<>>
    /\ storageManager \in StorageManagers

----------------------------------------------------------------------------
(* Properties of saveAnalysis *)

\* call i returns in this step
Returns(i) ==
    /\ i \in DOMAIN saves'
    /\ saves'[i].pc = "returned"
    /\ (i \in DOMAIN saves => saves[i].pc # "returned")

\* the entries stored under the key, none when nothing is stored
StoredEntries(stored) == IF stored.found THEN stored.data ELSE <<>>

StoredIds(stored) == {StoredEntries(stored)[k].id : k \in DOMAIN StoredEntries(stored)}

\* calls i and j overlap in time: one was called before the other returned
Overlap(i, j) == i \in saves[j].during \/ j \in saves[i].during

ReturnedSuccess(i) == saves[i].pc = "returned" /\ saves[i].result.success

\* C29: when two saveAnalysis calls overlap in time, both new entries are in
\* the stored history once both calls have returned success
C29_OverlappingSavesBothStored ==
    \A i \in DOMAIN saves : \A j \in DOMAIN saves :
        (i < j /\ Overlap(i, j) /\ ReturnedSuccess(i) /\ ReturnedSuccess(j)
             /\ \A k \in DOMAIN saves : k \in {i, j} \/ ~ReturnedSuccess(k))
        => {i, j} \subseteq StoredIds(storedHistory)

\* C30: a saveAnalysis that returns success leaves the new entry followed by
\* all previously stored entries in their order, cut to the 100 most recent,
\* also when reading the existing history failed; one that returns failure
\* leaves the stored history unchanged
C30_SavePrependsAndKeeps ==
    [][\A i \in DOMAIN saves' :
          Returns(i) =>
              IF saves'[i].result.success
              THEN StoredEntries(storedHistory') =
                       limitHistory(stringify(<<saves'[i].historyEntry>>)
                                        \o StoredEntries(storedHistory))
              ELSE storedHistory' = storedHistory]_vars

----------------------------------------------------------------------------
(* The calls of the pure functions as a specification *)

\* profiles given to the RecommendationEngine: at most one skill, three
\* experience levels, weekly time commitments of 0, 2 and 10 hours
EngineBackgrounds ==
    {[experience |-> experience,
      preferences |-> [timeCommitment |-> timeCommitment, focusAreas |-> focusAreas]] :
        experience \in {[totalYears |-> 1, level |-> "entry"],
                        [totalYears |-> 8, level |-> "senior"],
                        [totalYears |-> 12, level |-> "lead"]},
        timeCommitment \in {0, 2, 10},
        focusAreas \in {<<>>, <<"frameworks", "tools">>}}

EngineProfiles ==
    {[id |-> "user", skills |-> skills, experience |-> background.experience,
      preferences |-> background.preferences] :
        skills \in SeqsUpTo(UserSkills, 1), background \in EngineBackgrounds}

\* a call of RecommendationEngine.generateRecommendations
GenerateRecommendations(missingSkills, userProfile) ==
    /\ NoCallYet
    /\ calc' = [op |-> "generateRecommendations",
                input |-> [missingSkills |-> missingSkills, userProfile |-> userProfile],
                output |-> RecommendationEngine_generateRecommendations(missingSkills, userProfile)]
    /\ UNCHANGED <<workflowVars, historyVars>>

\* nothing has been computed yet
InitCalc == Init

\* a call of calculateStringSimilarity and of isSimilarSkill on the same names
CalculateStringSimilarity(str1, str2) ==
    /\ NoCallYet
    /\ calc' = [op |-> "calculateStringSimilarity",
                input |-> [str1 |-> str1, str2 |-> str2],
                output |-> [similarity |-> calculateStringSimilarity(str1, str2),
                            isSimilarSkill |-> isSimilarSkill(str1, str2)]]
    /\ UNCHANGED <<workflowVars, historyVars>>

\* a behaviour is one call: once a call is recorded no further call is enabled
NextCalc ==
    \/ /\ NoCallYet
       /\ \E n \in DescriptionLengths, k \in KeywordCounts : ValidateJobContent(n, k)
    \/ /\ NoCallYet
       /\ \E userProfile \in Profiles, jobPosting \in JobPostings :
              AnalyzeSkillGap(userProfile, jobPosting)
    \/ /\ NoCallYet
       /\ \E missingSkills \in SeqsUpTo(JobSkills, MaxJobSkills), userProfile \in EngineProfiles :
              GenerateRecommendations(missingSkills, userProfile)
    \/ /\ NoCallYet
       /\ \E str1 \in Names, str2 \in Names : CalculateStringSimilarity(str1, str2)

SpecCalc == InitCalc /\ [][NextCalc]_vars

\* the calls of ResumeOptimizer
NextOptimizer ==
    \/ /\ NoCallYet
       /\ \E k \in 0..MaxHistory :
              \E postings \in [1..k -> TrendPostings], latestFirst \in BOOLEAN :
                  AnalyzeSkillTrends(HistoryOf(postings, latestFirst))
    \/ /\ NoCallYet
       /\ \E k \in 0..MaxPostings :
              \E jobPostings \in [1..k -> KeywordPostings], userProfile \in KeywordProfiles :
                  GenerateKeywordSuggestions(jobPostings, userProfile)

SpecOptimizer == Init /\ [][NextOptimizer]_vars

\* the calls of SkillExtractionEngine.extractSkills
NextExtract ==
    \/ /\ NoCallYet
       /\ \E jobDescription \in JobDescriptions :
              \E terms \in TermsOf(jobDescription) : ExtractSkills(jobDescription, terms)

SpecExtract == Init /\ [][NextExtract]_vars

\* the calls of HistoryManager.saveAnalysis and their steps
NextHistory ==
    \/ \E validProfile \in BOOLEAN : SaveAnalysis(validProfile)
    \/ \E i \in 1..MaxSaves, rejects \in BOOLEAN : RetrieveDone(i, rejects)
    \/ \E i \in 1..MaxSaves, rejects \in BOOLEAN : StoreDone(i, rejects)

SpecHistory == InitHistory /\ [][NextHistory]_vars
====
